---- MODULE Spec2Model ----
(***************************************************************************)
(* The retrieval-and-ranking pipeline of RagService                        *)
(* (backend/app/services/rag.py) with its chunk store adapter              *)
(* (backend/app/repositories/patient_chunks.py) and its query logger       *)
(* (backend/app/repositories/rag_log.py).                                  *)
(*                                                                         *)
(* Conventions of the model                                                *)
(*  - a text is a sequence of lower-case tokens; the token " " is a run of *)
(*    whitespace; a substring test is a test on tokens (a token contains a *)
(*    word when it is the word or the word followed by "s");               *)
(*  - scores are integers: similarities in percent, keyword and recency    *)
(*    scores in permille, weights in percent;                              *)
(*  - a file name is its stem and its last extension;                      *)
(*  - Python's None is NoneInt / NoneFile / NoneText.                      *)
(***************************************************************************)
EXTENDS Integers, Sequences, FiniteSets, TLC

\* ------------------------------------------------------------------ bounds
\* chunks in the patient's store
MaxStore == 3
\* largest max_retrieval_chunks_chat (chunk_limit) drawn
MaxChunkLimit == 2
\* largest rerank_top_n drawn
MaxTopN == 2
\* deltas the completion streams before it ends
MaxDeltas == 2
\* longest candidate list handed to _rerank_chunks on its own
MaxRerankInput == 3
\* longest chunk list handed to _format_chunks on its own
MaxFormatInput == 3
\* most words of a question handed to _needs_hybrid_search on its own
MaxQuestionWords == 3
\* longest document_ids list handed to fetch_chunks_by_documents on its own
MaxDocumentIds == 2
\* largest limit_per_document handed to fetch_chunks_by_documents on its own
MaxPerDocument == 2
\* largest limit handed to search_similar_chunks on its own
MaxSearchLimit == 2
\* largest max_retrieval_chunks_summary drawn
MaxSummaryLimit == 2
\* most lines of a completion content handed to the summary parsing on its own
MaxLines == 3
\* first requests that may pass through the middleware of one process
MaxRequests == 3

\* ------------------------------------------------------- program constants
\* min_similarity_score_chat = 0.25, in percent
MinSimilarityChat == 25
\* rerank_similarity_weight = 0.6, rerank_keyword_weight = 0.25,
\* rerank_recency_weight = 0.15, in percent
RerankSimilarityWeight == 60
RerankKeywordWeight == 25
RerankRecencyWeight == 15
\* limit_per_document=5 of the related-document expansion
LimitPerDocument == 5

\* ---------------------------------------------------------------- None
NoneInt == -1
NoneFile == [stem |-> "<None>", ext |-> ""]
NoneText == <<"<None>">>

\* ------------------------------------------------------------ sequences
Take(s, n) == IF n <= 0 THEN << >> ELSE SubSeq(s, 1, IF n < Len(s) THEN n ELSE Len(s))

Range(s) == {s[i] : i \in 1..Len(s)}

Min2(a, b) == IF a < b THEN a ELSE b

Max2(a, b) == IF a > b THEN a ELSE b

\* x put before the first element that comes strictly after it: a stable insertion;
\* before is the set of pairs <<a, b>> with a ordered strictly before b
InsertSorted(x, s, before) ==
    LET later == {i \in 1..Len(s) : <<x, s[i]>> \in before}
    IN  IF later = {} THEN Append(s, x)
        ELSE LET p == CHOOSE i \in later : \A j \in later : i <= j
             IN  SubSeq(s, 1, p - 1) \o <<x>> \o SubSeq(s, p, Len(s))

\* a stable sort: elements that compare equal keep their order in s
StableSort(s, before) ==
    LET F[k \in 0..Len(s)] ==
            IF k = 0 THEN << >> ELSE InsertSorted(s[k], F[k - 1], before)
    IN  F[Len(s)]

\* --------------------------------------------------------------- chunks
FileName(stem, ext) == [stem |-> stem, ext |-> ext]

\* PatientChunk; a row of patient_chunks is the same record, its similarity being
\* 1 - distance to the embedding of the request's question
Chunk(id, doc, file, page, idx, text, sim) ==
    [chunk_id |-> id, document_id |-> doc, file_name |-> file, page_number |-> page,
     chunk_index |-> idx, text |-> text, similarity |-> sim]

\* not chunk.text or not chunk.text.strip()
IsBlank(text) == text = NoneText \/ \A i \in 1..Len(text) : text[i] = " "

\* `word in text` / text ILIKE %word%, on tokens
TokenContains(tok, word) == tok = word \/ tok = word \o "s"

TextContains(text, word) ==
    text # NoneText /\ \E i \in 1..Len(text) : TokenContains(text[i], word)

\* text.count(word)
CountOccurrences(text, word) ==
    IF text = NoneText THEN 0
    ELSE Cardinality({i \in 1..Len(text) : TokenContains(text[i], word)})

\* the rows a patient may have, in the order ingested_at DESC, page_number NULLS
\* LAST, chunk_index NULLS LAST
Universe ==
    << Chunk(1, 1, FileName("labs", ".pdf"), 1, 0, <<"triglyceride", "glucose">>, 90),
       Chunk(2, 1, NoneFile, 2, 0, <<" ">>, 60),
       Chunk(3, 2, FileName("notes", ".txt"), NoneInt, NoneInt,
             <<"triglycerides", "triglyceride", "level">>, 10),
       Chunk(4, 2, FileName("", ""), 1, 1, NoneText, 40),
       Chunk(5, 3, FileName("visit", ".csv"), 1, 0, <<"weight", "readings">>, 30) >>

RowsOf(S) ==
    LET F[k \in 0..Len(Universe)] ==
            IF k = 0 THEN << >>
            ELSE IF k \in S THEN Append(F[k - 1], Universe[k]) ELSE F[k - 1]
    IN  F[Len(Universe)]

Stores == {RowsOf(S) : S \in {T \in SUBSET (1..Len(Universe)) : Cardinality(T) <= MaxStore}}

\* a row read without its similarity column: PatientChunk(**row), similarity=None
AsChunk(row) == [row EXCEPT !.similarity = NoneInt]

AsChunks(rows) == [i \in 1..Len(rows) |-> AsChunk(rows[i])]

ChunkIds(cs) == {cs[i].chunk_id : i \in 1..Len(cs)}

DistinctIds(cs) == \A i, j \in 1..Len(cs) : cs[i].chunk_id = cs[j].chunk_id => i = j

\* ------------------------------------------------------ chunk store adapter
FetchRecentChunks(st, limit) == Take(AsChunks(st), limit)

RowHasKeyword(row, keyword) == TextContains(row.text, keyword)

SearchChunksByKeyword(st, keyword, limit) ==
    LET Hit(row) == RowHasKeyword(row, keyword)
    IN  Take(AsChunks(SelectSeq(st, Hit)), limit)

\* ORDER BY document_id, page_number NULLS LAST, chunk_index NULLS LAST
NullsLastBefore(a, b) == a # NoneInt /\ (b = NoneInt \/ a < b)

DocumentOrderBefore(x, y) ==
    \/ x.document_id < y.document_id
    \/ /\ x.document_id = y.document_id
       /\ \/ NullsLastBefore(x.page_number, y.page_number)
          \/ /\ x.page_number = y.page_number
             /\ NullsLastBefore(x.chunk_index, y.chunk_index)

\* mutant: the query without its LIMIT
FetchChunksByDocumentsUnlimited(st, document_ids, limit_per_document) ==
    LET InDocs(row) == row.document_id \in Range(document_ids)
        ordering == {p \in Range(st) \X Range(st) : DocumentOrderBefore(p[1], p[2])}
    IN  AsChunks(StableSort(SelectSeq(st, InDocs), ordering))

\* document_ids is a list: total_limit counts its entries
FetchChunksByDocuments(st, document_ids, limit_per_document) ==
    IF document_ids = << >> THEN << >>
    ELSE LET InDocs(row) == row.document_id \in Range(document_ids)
             total_limit == Len(document_ids) * limit_per_document
             ordering == {p \in Range(st) \X Range(st) : DocumentOrderBefore(p[1], p[2])}
         IN  Take(AsChunks(StableSort(SelectSeq(st, InDocs), ordering)), total_limit)

\* the direct query of search_similar_chunks: ORDER BY distance LIMIT limit, then
\* the manual similarity filter, then the non-blank text filter
DistanceBefore(x, y) == x.similarity > y.similarity

PassesSimilarity(row, min_similarity) ==
    row.similarity # 0 /\ row.similarity >= min_similarity

SearchSimilarChunks(st, limit, min_similarity) ==
    LET ordering == {p \in Range(st) \X Range(st) : DistanceBefore(p[1], p[2])}
        rows == Take(StableSort(st, ordering), limit)
        Kept(row) == PassesSimilarity(row, min_similarity) /\ ~IsBlank(row.text)
    IN  Take(SelectSeq(rows, Kept), limit)

\* -------------------------------------------------- hybrid search decider
\* the questions asked, lower-cased and split into tokens
QPlain == <<"what", "is", "the", "most", "recent", "glucose", "level">>

QList == <<"list", "all", "triglyceride", "readings">>

QPlural == <<"last", "5", "triglycerides">>

QNoKeyword == <<"how", "many", "visits">>

Questions == {QPlain, QList, QPlural, QNoKeyword}

Numbers == {"5", "10"}

\* question.lower(), token by token
ToLowerIdentity(tok) == tok

ToLower(tok) ==
    CASE tok = "LAST" -> "last"
      [] tok = "How" -> "how"
      [] tok = "Triglycerides" -> "triglycerides"
      [] OTHER -> tok

QuestionLower(q) == [i \in 1..Len(q) |-> ToLower(q[i])]

\* the four patterns of _needs_hybrid_search
NeedsHybridSearch(q) ==
    \E i \in 1..Len(q) :
        \/ q[i] = "last" /\ i < Len(q) /\ q[i + 1] \in Numbers
        \/ q[i] \in {"all", "every", "each"} /\ i < Len(q)
        \/ q[i] = "how" /\ i < Len(q) /\ q[i + 1] = "many"
        \/ q[i] = "list" /\ i < Len(q)

\* lab_patterns: the terms matched as they stand, and those matched with [s]?
LabTerms ==
    {"cholesterol", "glucose", "hba1c", "creatinine", "hemoglobin", "wbc", "rbc",
     "ldl", "hdl", "bp", "bmi", "weight", "height"}

LabPluralTerms == {"triglyceride", "platelet", "lipid"}

\* match.group(0) of the first match of \bterm[s]?\b, with the singular form added
\* when the match ends in "s" and is longer than 3
PluralPatternKeywords(q, term) ==
    LET hits == {i \in 1..Len(q) : q[i] \in {term, term \o "s"}}
    IN  IF hits = {} THEN {}
        ELSE LET keyword == q[CHOOSE i \in hits : \A j \in hits : i <= j]
             IN  IF keyword = term \o "s" /\ Len(keyword) > 3
                 THEN {term, keyword} ELSE {keyword}

ExtractLabKeywords(q) ==
    UNION { {t \in LabTerms : t \in Range(q)},
            UNION {PluralPatternKeywords(q, t) : t \in LabPluralTerms},
            IF \E i \in 1..Len(q) - 1 : q[i] = "blood" /\ q[i + 1] = "pressure"
            THEN {"blood pressure"} ELSE {} }

\* mutant: without the test `if lab_keywords`
HybridFiresOnTrigger(q) == NeedsHybridSearch(q)

\* if self._needs_hybrid_search(question): ... if lab_keywords:
HybridFires(q) == NeedsHybridSearch(q) /\ ExtractLabKeywords(q) # {}

\* mutant: min(lab_keywords, key=len)
PrimaryKeywordsShortest(lab_keywords) ==
    {k \in lab_keywords : \A j \in lab_keywords : Len(k) <= Len(j)}

\* max(lab_keywords, key=len) over list(set(keywords)): the first keyword of maximum
\* length in the set's iteration order, so any keyword of maximum length
PrimaryKeywords(lab_keywords) ==
    {k \in lab_keywords : \A j \in lab_keywords : Len(j) <= Len(k)}

\* ------------------------------------------------------- re-ranking engine
StopWords ==
    {"the", "a", "an", "and", "or", "but", "in", "on", "at", "to", "for", "of", "with",
     "by", "what", "when", "where", "how", "is", "are", "was", "were", "be", "been",
     "have", "has", "had", "do", "does", "did", "will", "would", "could", "should"}

QuestionWords(q) ==
    LET Significant(w) == w \notin StopWords /\ Len(w) > 2
    IN  SelectSeq(q, Significant)

SumSeq(s) ==
    LET F[k \in 0..Len(s)] == IF k = 0 THEN 0 ELSE F[k - 1] + s[k]
    IN  F[Len(s)]

\* matches = sum(1 for word in question_words if word in chunk_text_lower)
KeywordMatches(chunk, question_words) ==
    Cardinality({i \in 1..Len(question_words) : TextContains(chunk.text, question_words[i])})

\* total_occurrences = sum(chunk_text_lower.count(word) for word in question_words)
TotalOccurrences(chunk, question_words) ==
    SumSeq([i \in 1..Len(question_words) |->
               CountOccurrences(chunk.text, question_words[i])])

\* mutant: the bonus without its cap
OccurrenceBonusUncapped(chunk, question_words) ==
    (TotalOccurrences(chunk, question_words) - KeywordMatches(chunk, question_words)) * 100

\* occurrence_bonus = min(0.3, (total_occurrences - matches) * 0.1), in permille
OccurrenceBonus(chunk, question_words) ==
    Min2(300, (TotalOccurrences(chunk, question_words)
               - KeywordMatches(chunk, question_words)) * 100)

\* _calculate_keyword_score, in permille
CalculateKeywordScore(chunk, q) ==
    IF chunk.text = NoneText \/ chunk.text = << >> THEN 0
    ELSE LET question_words == QuestionWords(q)
             n == Len(question_words)
         IN  IF n = 0 THEN 0
             ELSE LET matches == KeywordMatches(chunk, question_words)
                      base_score == (1000 * matches) \div n
                      occurrence_bonus == OccurrenceBonus(chunk, question_words)
                  IN  Min2(1000, base_score + occurrence_bonus)

\* 1000 * e^(-2 * index / max_index) rounded, for max_index 1..7
ExpDecayTable ==
    << <<1000, 135>>,
       <<1000, 368, 135>>,
       <<1000, 513, 264, 135>>,
       <<1000, 607, 368, 223, 135>>,
       <<1000, 670, 449, 301, 202, 135>>,
       <<1000, 717, 513, 368, 264, 189, 135>>,
       <<1000, 751, 565, 424, 319, 240, 180, 135>> >>

\* chunks.index(chunk), zero-based: the first position holding an equal chunk
IndexOf(chunks, chunk) ==
    (CHOOSE i \in 1..Len(chunks) :
        chunks[i] = chunk /\ \A j \in 1..Len(chunks) : chunks[j] = chunk => i <= j) - 1

\* mutant: the decay taken from the end of the list
CalculateRecencyScoreFromEnd(chunks, chunk) ==
    IF chunk \notin Range(chunks) THEN 500
    ELSE LET index == IndexOf(chunks, chunk)
             max_index == Len(chunks) - 1
         IN  IF max_index = 0 THEN 1000
             ELSE Max2(100, ExpDecayTable[max_index][max_index - index + 1])

\* _calculate_recency_score, in permille
CalculateRecencyScore(chunks, chunk) ==
    IF chunk \notin Range(chunks) THEN 500
    ELSE LET index == IndexOf(chunks, chunk)
             max_index == Len(chunks) - 1
         IN  IF max_index = 0 THEN 1000
             ELSE Max2(100, ExpDecayTable[max_index][index + 1])

\* composite_score of _rerank_chunks, in units of 10^-6
CompositeScore(chunks, chunk, q) ==
    LET keyword_score == CalculateKeywordScore(chunk, q)
        recency_score == CalculateRecencyScore(chunks, chunk)
        similarity_score == Max2(0, Min2(100, chunk.similarity))
    IN  IF chunk.similarity = NoneInt
        THEN RerankSimilarityWeight * (keyword_score * 8)
             + RerankKeywordWeight * keyword_score * 10
             + RerankRecencyWeight * recency_score * 10
        ELSE RerankSimilarityWeight * similarity_score * 100
             + RerankKeywordWeight * keyword_score * 10
             + RerankRecencyWeight * recency_score * 10

\* mutant: the sort without reverse=True
ScoreBeforeAscending(x, y) == x.score < y.score

\* scored_chunks.sort(key=lambda x: x[0], reverse=True): stable
ScoreBefore(x, y) == x.score > y.score

SortByScore(scored_chunks) == StableSort(scored_chunks,
        {p \in Range(scored_chunks) \X Range(scored_chunks) : ScoreBefore(p[1], p[2])})

\* mutant: without the early return for len(chunks) <= top_k
RerankChunksAlwaysSorts(chunks, q, top_k, rerank_enabled) ==
    IF chunks = << >> \/ ~rerank_enabled THEN Take(chunks, top_k)
    ELSE LET scored_chunks ==
                 [i \in 1..Len(chunks) |->
                     [score |-> CompositeScore(chunks, chunks[i], q), chunk |-> chunks[i]]]
             sorted == Take(SortByScore(scored_chunks), top_k)
         IN  [i \in 1..Len(sorted) |-> sorted[i].chunk]

RerankChunks(chunks, q, top_k, rerank_enabled) ==
    IF chunks = << >> \/ ~rerank_enabled THEN Take(chunks, top_k)
    ELSE IF Len(chunks) <= top_k THEN chunks
    ELSE LET scored_chunks ==
                 [i \in 1..Len(chunks) |->
                     [score |-> CompositeScore(chunks, chunks[i], q), chunk |-> chunks[i]]]
             sorted == Take(SortByScore(scored_chunks), top_k)
         IN  [i \in 1..Len(sorted) |-> sorted[i].chunk]

\* ------------------------------------------------------ context assembler
NoContext == <<"No patient context available.">>

NoChunksRetrieved == <<"No chunks retrieved">>

\* if chunk.file_name: ... endswith(('.pdf', '.txt', '.doc', '.docx')) ... rsplit
HasFileName(chunk) ==
    chunk.file_name # NoneFile /\ chunk.file_name.stem \o chunk.file_name.ext # ""

DocName(chunk) ==
    IF chunk.file_name.ext \in {".pdf", ".txt", ".doc", ".docx"}
    THEN chunk.file_name.stem
    ELSE chunk.file_name.stem \o chunk.file_name.ext

\* "sep".join(parts)
Join(parts, sep) ==
    LET F[k \in 0..Len(parts)] ==
            IF k = 0 THEN << >>
            ELSE IF k = 1 THEN parts[1] ELSE F[k - 1] \o sep \o parts[k]
    IN  F[Len(parts)]

\* mutant: only absent text is skipped, whitespace is kept
HasTextUnlessNone(chunk) == chunk.text # NoneText

HasText(chunk) == ~IsBlank(chunk.text)

FormatBlock(chunk) ==
    (IF HasFileName(chunk) THEN <<"Document: ", DocName(chunk)>>
     ELSE <<"Document: ", ToString(chunk.document_id)>>)
    \o (IF chunk.page_number # NoneInt
        THEN <<" (page ", ToString(chunk.page_number), ")">> ELSE << >>)
    \o <<":\n">> \o chunk.text

FormatChunks(chunks) ==
    LET kept == SelectSeq(chunks, HasText)
        formatted == [i \in 1..Len(kept) |-> FormatBlock(kept[i])]
    IN  IF formatted = << >> THEN NoContext ELSE Join(formatted, <<"\n\n">>)

FormatLogBlock(chunk) ==
    LET chunk_info ==
            <<IF HasFileName(chunk) THEN <<"Document: ", DocName(chunk)>>
              ELSE <<"Document ID: ", ToString(chunk.document_id)>>>>
            \o (IF chunk.page_number # NoneInt
                THEN <<<<"Page: ", ToString(chunk.page_number)>>>> ELSE << >>)
            \o (IF chunk.chunk_index # NoneInt
                THEN <<<<"Chunk Index: ", ToString(chunk.chunk_index)>>>> ELSE << >>)
            \o (IF chunk.similarity # NoneInt
                THEN <<<<"Similarity: ", ToString(chunk.similarity)>>>> ELSE << >>)
    IN  Join(chunk_info, <<"\n">>) \o <<"\n">> \o chunk.text

\* mutant: the log formatter skips only absent text
FormatChunksForLoggingKeepsBlank(chunks) ==
    LET kept == SelectSeq(chunks, HasTextUnlessNone)
        formatted_chunks == [i \in 1..Len(kept) |-> FormatLogBlock(kept[i])]
    IN  IF formatted_chunks = << >> THEN NoChunksRetrieved
        ELSE Join(formatted_chunks, <<"\n----\n">>)

FormatChunksForLogging(chunks) ==
    LET kept == SelectSeq(chunks, HasText)
        formatted_chunks == [i \in 1..Len(kept) |-> FormatLogBlock(kept[i])]
    IN  IF formatted_chunks = << >> THEN NoChunksRetrieved
        ELSE Join(formatted_chunks, <<"\n----\n">>)

\* -------------------------------------------------------------- completion
Message(role, content) == [role |-> role, content |-> content]

\* mutant: the patient-context message is appended whatever the context is
BuildMessagesAlwaysContext(prompt, context, q, hist) ==
    <<Message("system", <<"SYSTEM_PROMPT">>)>>
    \o <<Message("system", <<"Patient Context:\n">> \o context \o <<"[System Context]">>)>>
    \o <<Message("system", prompt)>>
    \o hist
    \o (IF q # << >> THEN <<Message("user", q)>> ELSE << >>)

\* the messages of _chat_completion / _chat_completion_stream
BuildMessages(prompt, context, q, hist) ==
    <<Message("system", <<"SYSTEM_PROMPT">>)>>
    \o (IF context # << >> /\ context # NoContext
        THEN <<Message("system", <<"Patient Context:\n">> \o context \o <<"[System Context]">>)>>
        ELSE << >>)
    \o <<Message("system", prompt)>>
    \o hist
    \o (IF q # << >> THEN <<Message("user", q)>> ELSE << >>)

\* _add_temporal_context(_get_chat_prompt(question), system_context)
EnhancedChatPrompt == <<"chat_prompt", "\n\n", "TEMPORAL CONTEXT">>

\* completion.choices[0].message.content or ""
ContentOrEmpty(content) == IF content = NoneText THEN << >> ELSE content

\* if delta.content: yield delta.content
DeltaIsYielded(delta) == delta # NoneText /\ delta # << >>

\* -------------------------------------------------- structured completion
\* The content of a summary completion is a sequence of lines (splitlines), a line
\* a sequence of tokens: " " is a run of whitespace, "HEADLINE:" and "BULLETS:" are
\* the markers, "-", "*" and "1." are bullet prefixes, any other token is text that
\* holds none of the characters lstrip removes.
HeadlineMarkers == {"HEADLINE:", "headline:"}

BulletsMarkers == {"BULLETS:", "bullets:"}

\* the characters of lstrip("-•*0123456789. "), as tokens
BulletPrefixTokens == {"-", "*", "1.", " "}

\* s.lstrip(chars)
LStrip(s, chars) ==
    LET rest == {i \in 1..Len(s) : s[i] \notin chars}
    IN  IF rest = {} THEN << >>
        ELSE SubSeq(s, CHOOSE i \in rest : \A j \in rest : i <= j, Len(s))

\* s.rstrip(chars)
RStrip(s, chars) ==
    LET rest == {i \in 1..Len(s) : s[i] \notin chars}
    IN  IF rest = {} THEN << >>
        ELSE SubSeq(s, 1, CHOOSE i \in rest : \A j \in rest : i >= j)

\* s.strip()
Strip(s) == RStrip(LStrip(s, {" ", "\n"}), {" ", "\n"})

\* line.upper().startswith("HEADLINE:")
StartsWithHeadline(line) == line # << >> /\ line[1] \in HeadlineMarkers

\* line.upper().startswith("BULLETS:")
StartsWithBullets(line) == line # << >> /\ line[1] \in BulletsMarkers

\* headline_text = line.split(":", 1)[1].strip(), prefixed unless it starts with
\* "Overall Status:"
HeadlineOf(line) ==
    LET headline_text == Strip(Tail(line))
    IN  IF headline_text # << >> /\ headline_text[1] = "Overall Status:"
        THEN headline_text
        ELSE <<"Overall Status:", " ">> \o headline_text

\* line.lstrip("-•*0123456789. ").strip()
BulletOf(line) == Strip(LStrip(line, BulletPrefixTokens))

\* line.startswith("-") or ... or (line[0].isdigit() and "." in line[:3])
LooksLikeBullet(line) == line # << >> /\ line[1] \in {"-", "1."}

\* the first loop over content.splitlines(): headline, in_bullets_section, bullets
ScanLines(content) ==
    LET F[k \in 0..Len(content)] ==
            IF k = 0
            THEN [headline |-> <<"Overall Status:", " ", "Clinical Update">>,
                  in_bullets_section |-> FALSE, bullets |-> << >>]
            ELSE LET line == Strip(content[k])
                     prev == F[k - 1]
                 IN  IF line = << >> THEN prev
                     ELSE IF StartsWithHeadline(line)
                          THEN [prev EXCEPT !.headline = HeadlineOf(line)]
                     ELSE IF StartsWithBullets(line)
                          THEN [prev EXCEPT !.in_bullets_section = TRUE]
                     ELSE IF prev.in_bullets_section /\ BulletOf(line) # << >>
                          THEN [prev EXCEPT !.bullets = Append(@, BulletOf(line))]
                     ELSE prev
    IN  F[Len(content)]

\* the second loop: bullet-looking lines anywhere in the content
BulletLookingLines(content) ==
    LET F[k \in 0..Len(content)] ==
            IF k = 0 THEN << >>
            ELSE LET line == Strip(content[k])
                 IN  IF LooksLikeBullet(line) /\ BulletOf(line) # << >>
                     THEN Append(F[k - 1], BulletOf(line)) ELSE F[k - 1]
    IN  F[Len(content)]

\* content_lines = [l.strip() for l in content.splitlines()
\*                  if l.strip() and not l.upper().startswith("HEADLINE:")]
ContentLines(content) ==
    LET F[k \in 0..Len(content)] ==
            IF k = 0 THEN << >>
            ELSE IF Strip(content[k]) # << >> /\ ~StartsWithHeadline(content[k])
                 THEN Append(F[k - 1], Strip(content[k])) ELSE F[k - 1]
    IN  F[Len(content)]

\* content.strip(): the lines joined by their line breaks, stripped
RawOutput(content) ==
    LET F[k \in 0..Len(content)] ==
            IF k = 0 THEN << >>
            ELSE IF k = 1 THEN content[1] ELSE F[k - 1] \o <<"\n">> \o content[k]
    IN  Strip(F[Len(content)])

\* the headline and bullets _structured_completion returns for a content
ParseSummary(content) ==
    LET scanned == ScanLines(content)
        bullets ==
            IF scanned.bullets # << >> THEN scanned.bullets
            ELSE IF BulletLookingLines(content) # << >> THEN BulletLookingLines(content)
            ELSE IF ContentLines(content) # << >> THEN ContentLines(content)
            ELSE <<RawOutput(content)>>
    IN  [headline |-> scanned.headline, bullets |-> bullets]

\* ------------------------------------------------------------ the request
VARIABLES
    pc,              \* where the request's coroutine stands
    mode,            \* "blocking": answer_question, "stream": answer_question_stream
    question,        \* the question, lower-cased tokens
    history,         \* conversation history
    store,           \* the patient's rows of patient_chunks
    settings,        \* rerank_enabled, max_retrieval_chunks_chat, rerank_top_n
    log_repo,        \* whether self._log_repo is set
    chunks,          \* the local chunks
    keyword_chunks,  \* the local keyword_chunks
    related_chunks,  \* the local related_chunks
    vector_chunks,   \* what search_similar_chunks returned
    merged,          \* chunks after the hybrid merges, before the 2x cap
    retrieved,       \* chunks as tested by `if not chunks`
    candidates,      \* chunks as handed to the re-ranking step
    context,         \* _format_chunks(chunks)
    messages,        \* the messages of the completion call
    modelOut,        \* what the model has produced: the content, or the deltas so far
    message,         \* the local message of answer_question
    full_response,   \* the local full_response of answer_question_stream
    yielded,         \* the fragments the caller has received
    returned,        \* the string the caller has received
    calls,           \* the external calls made, in order
    logAttempts,     \* entries into the try block around the log write
    logCalls,        \* the entries handed to log_rag_query
    logRows,         \* the rows inserted into rag_log
    error,           \* what was raised to the caller
    args,            \* the arguments of a function called on its own
    result,          \* what a function called on its own returned
    app_state,       \* the module global _app_state of main.py
    created,         \* the pools and services created in this process, in order
    requests         \* where each request stands in the ensure_initialized middleware

vars ==
    <<pc, mode, question, history, store, settings, log_repo, chunks, keyword_chunks,
      related_chunks, vector_chunks, merged, retrieved, candidates, context, messages, modelOut,
      message, full_response, yielded, returned, calls, logAttempts, logCalls,
      logRows, error, args, result, app_state, created, requests>>

inputs == <<mode, question, history, store, settings, log_repo>>

standalone == <<args, result>>

process == <<app_state, created, requests>>

\* _app_state as the module defines it
AppStateAtImport ==
    [chunk_repo |-> NoneInt, log_repo |-> NoneInt, rag_service |-> NoneInt,
     initialized |-> FALSE]

retrieval ==
    <<chunks, keyword_chunks, related_chunks, vector_chunks, merged, retrieved, candidates>>

prompting == <<context, messages>>

answer == <<modelOut, message, full_response, yielded, returned>>

logging == <<logAttempts, logCalls, logRows>>

Histories ==
    {<< >>, <<Message("user", <<"earlier">>), Message("assistant", <<"reply">>)>>}

SettingsSet ==
    [rerank_enabled : BOOLEAN, chunk_limit : 1..MaxChunkLimit, rerank_top_n : 1..MaxTopN]

\* delta.content of one streamed chunk; NoneText also stands for an empty content
\* and for a chunk without choices
Deltas == {<<"a">>, <<"b">>, NoneText}

\* message.content of a blocking completion
Contents == {NoneText, << >>, <<"a">>, <<"a", "b">>}

Call(op, keyword, limit) == [op |-> op, keyword |-> keyword, limit |-> limit]

\* retrieval_limit of answer_question / answer_question_stream
RetrievalLimit(s) == IF s.rerank_enabled THEN s.rerank_top_n ELSE s.chunk_limit

\* mutant: the new chunks are put ahead of the list
MergePrepend(cs, extra) ==
    LET F[k \in 0..Len(cs)] ==
            IF k = 0 THEN extra
            ELSE IF cs[k].chunk_id \in ChunkIds(F[k - 1]) THEN F[k - 1]
            ELSE Append(F[k - 1], cs[k])
    IN  F[Len(cs)]

\* mutant: chunks.extend(extra), without the chunk_ids_seen test
MergeAppendAll(cs, extra) == cs \o extra

\* for chunk in extra: if chunk.chunk_id not in chunk_ids_seen: chunks.append(chunk)
MergeDedup(cs, extra) ==
    LET F[k \in 0..Len(extra)] ==
            IF k = 0 THEN cs
            ELSE IF extra[k].chunk_id \in ChunkIds(F[k - 1]) THEN F[k - 1]
            ELSE Append(F[k - 1], extra[k])
    IN  F[Len(extra)]

\* mutant: the merged list is never cut
CapChunksNever(cs, retrieval_limit) == cs

\* list(set(...)): the elements of a set once each, in the set's iteration order
DistinctList(S) == CHOOSE s \in [1..Cardinality(S) -> S] : Range(s) = S

\* if len(chunks) > retrieval_limit * 2: chunks = chunks[:retrieval_limit * 2]
CapChunks(cs, retrieval_limit) ==
    IF Len(cs) > retrieval_limit * 2 THEN Take(cs, retrieval_limit * 2) ELSE cs

\* mutant: the completion is called as soon as the searches have returned
AfterRetrievalCompletes(cs) == "complete"

\* mutant: the recency fallback is never taken
AfterRetrievalNeverFallsBack(cs) == "rerank"

\* if not chunks: ... fetch_recent_chunks
AfterRetrieval(cs) == IF cs = << >> THEN "fallback" ELSE "rerank"

Init ==
    /\ pc = "embed"
    /\ mode \in {"blocking", "stream"}
    /\ question \in Questions
    /\ history \in Histories
    /\ store \in Stores
    /\ settings \in SettingsSet
    /\ log_repo \in BOOLEAN
    /\ chunks = << >>
    /\ keyword_chunks = << >>
    /\ related_chunks = << >>
    /\ vector_chunks = << >>
    /\ merged = << >>
    /\ retrieved = << >>
    /\ candidates = << >>
    /\ context = << >>
    /\ messages = << >>
    /\ modelOut = << >>
    /\ message = NoneText
    /\ full_response = << >>
    /\ yielded = << >>
    /\ returned = NoneText
    /\ calls = << >>
    /\ logAttempts = 0
    /\ logCalls = << >>
    /\ logRows = << >>
    /\ error = "none"
    /\ app_state = AppStateAtImport
    /\ created = << >>
    /\ requests = << >>
    /\ args = NoneText
    /\ result = NoneText

\* embedding = await self._create_embedding(question)
CreateEmbedding ==
    /\ pc = "embed"
    /\ calls' = Append(calls, Call("embed", "", 0))
    /\ pc' = "search"
    /\ UNCHANGED <<process, inputs, standalone, retrieval, prompting, answer, logging, error>>

CreateEmbeddingFails ==
    /\ pc = "embed"
    /\ calls' = Append(calls, Call("embed", "", 0))
    /\ pc' = "failed"
    /\ error' = "embedding"
    /\ UNCHANGED <<process, inputs, standalone, retrieval, prompting, answer, logging>>

\* chunks = await self._repo.search_similar_chunks(...), then the hybrid test
PrimarySearch ==
    /\ pc = "search"
    /\ LET found == SearchSimilarChunks(store, RetrievalLimit(settings), MinSimilarityChat)
           hybrid == HybridFires(question)
       IN  /\ chunks' = found
           /\ vector_chunks' = found
           /\ retrieved' = IF hybrid THEN retrieved ELSE found
           /\ pc' = IF hybrid THEN "keyword" ELSE AfterRetrieval(found)
    /\ calls' = Append(calls, Call("search_similar", "", RetrievalLimit(settings)))
    /\ UNCHANGED <<process, inputs, standalone, keyword_chunks, related_chunks, merged, candidates, prompting,
                   answer, logging, error>>

\* keyword_chunks = await self._repo.search_chunks_by_keyword(...), the merge, and
\* when no document is referenced the cap
KeywordSearch ==
    /\ pc = "keyword"
    /\ \E primary_keyword \in PrimaryKeywords(ExtractLabKeywords(question)) :
         LET found == SearchChunksByKeyword(store, primary_keyword, settings.chunk_limit * 2)
             combined == MergeDedup(chunks, found)
             capped == CapChunks(combined, RetrievalLimit(settings))
         IN  /\ keyword_chunks' = found
             /\ calls' = Append(calls,
                    Call("search_keyword", primary_keyword, settings.chunk_limit * 2))
             /\ IF found # << >>
                THEN /\ chunks' = combined
                     /\ pc' = "expand"
                     /\ UNCHANGED <<merged, retrieved>>
                ELSE /\ chunks' = capped
                     /\ merged' = combined
                     /\ retrieved' = capped
                     /\ pc' = AfterRetrieval(capped)
    /\ UNCHANGED <<process, inputs, standalone, related_chunks, vector_chunks, candidates, prompting, answer,
                   logging, error>>

\* related_chunks = await self._repo.fetch_chunks_by_documents(...), the merge, the cap
ExpandDocuments ==
    /\ pc = "expand"
    /\ LET document_ids ==
               DistinctList({keyword_chunks[i].document_id : i \in 1..Len(keyword_chunks)})
           related == FetchChunksByDocuments(store, document_ids, LimitPerDocument)
           combined == MergeDedup(chunks, related)
           capped == CapChunks(combined, RetrievalLimit(settings))
       IN  /\ related_chunks' = related
           /\ chunks' = capped
           /\ merged' = combined
           /\ retrieved' = capped
           /\ pc' = AfterRetrieval(capped)
           /\ calls' = Append(calls,
                  Call("fetch_documents", "", Len(document_ids) * LimitPerDocument))
    /\ UNCHANGED <<process, inputs, standalone, keyword_chunks, vector_chunks, candidates, prompting, answer,
                   logging, error>>

\* mutant: the fallback branch leaves chunks empty and fetches nothing
FallbackSkipped ==
    /\ pc = "fallback"
    /\ pc' = "rerank"
    /\ UNCHANGED <<process, inputs, standalone, retrieval, prompting, answer, calls, logging, error>>

\* chunks = await self._repo.fetch_recent_chunks(patient_id, retrieval_limit)
Fallback ==
    /\ pc = "fallback"
    /\ chunks' = FetchRecentChunks(store, RetrievalLimit(settings))
    /\ calls' = Append(calls, Call("fetch_recent", "", RetrievalLimit(settings)))
    /\ pc' = "rerank"
    /\ UNCHANGED <<process, inputs, standalone, keyword_chunks, related_chunks, vector_chunks, merged, retrieved,
                   candidates, prompting, answer, logging, error>>

\* if self._settings.rerank_enabled and chunks: chunks = self._rerank_chunks(...)
FinalChunks(cs, q, s) ==
    IF s.rerank_enabled /\ cs # << >>
    THEN RerankChunks(cs, q, s.chunk_limit, s.rerank_enabled)
    ELSE cs

\* the re-ranking step, _format_chunks and the messages, up to the completion call
RerankAndAssemble ==
    /\ pc = "rerank"
    /\ candidates' = chunks
    /\ chunks' = FinalChunks(chunks, question, settings)
    /\ context' = FormatChunks(chunks')
    /\ messages' = BuildMessages(EnhancedChatPrompt, context', question, history)
    /\ pc' = "complete"
    /\ UNCHANGED <<process, inputs, standalone, keyword_chunks, related_chunks, vector_chunks, merged, retrieved,
                   answer, calls, logging, error>>

\* mutant: the log write is skipped whether or not a log repository is set
AfterCompletionNeverLogs(has_log_repo) == "skip_log"

\* after the completion: `if not self._log_repo` skips the log write
AfterCompletion(has_log_repo) == IF has_log_repo THEN "log" ELSE "skip_log"

\* message = await self._chat_completion(...): the blocking completion
ChatCompletion ==
    /\ pc = "complete"
    /\ mode = "blocking"
    /\ \E content \in Contents :
         /\ modelOut' = <<content>>
         /\ message' = ContentOrEmpty(content)
    /\ calls' = Append(calls, Call("completion", "", 0))
    /\ pc' = AfterCompletion(log_repo)
    /\ UNCHANGED <<process, inputs, standalone, retrieval, prompting, full_response, yielded, returned,
                   logging, error>>

\* stream = await self._client.chat.completions.create(..., stream=True)
OpenStream ==
    /\ pc = "complete"
    /\ mode = "stream"
    /\ calls' = Append(calls, Call("completion", "", 0))
    /\ pc' = "stream_next"
    /\ UNCHANGED <<process, inputs, standalone, retrieval, prompting, answer, logging, error>>

\* the completion call raises (the ValueError of a bad model, or the error itself)
CompletionFails ==
    /\ pc \in {"complete", "stream_next"}
    /\ calls' = IF pc = "complete" THEN Append(calls, Call("completion", "", 0)) ELSE calls
    /\ pc' = "failed"
    /\ error' = "completion"
    /\ UNCHANGED <<process, inputs, standalone, retrieval, prompting, answer, logging>>

\* mutant: yield full_response instead of yield chunk
ForwardAccumulated(delta) ==
    /\ full_response' = full_response \o delta
    /\ yielded' = Append(yielded, full_response')
    /\ pc' = "suspended"

\* full_response += chunk; yield chunk
Forward(delta) ==
    /\ full_response' = full_response \o delta
    /\ yielded' = Append(yielded, delta)
    /\ pc' = "suspended"

\* async for chunk in stream: one streamed chunk arrives
StreamDelta ==
    /\ pc = "stream_next"
    /\ Len(modelOut) < MaxDeltas
    /\ \E delta \in Deltas :
         /\ modelOut' = Append(modelOut, delta)
         /\ IF DeltaIsYielded(delta)
            THEN Forward(delta)
            ELSE /\ pc' = "stream_next"
                 /\ UNCHANGED <<full_response, yielded>>
    /\ UNCHANGED <<process, inputs, standalone, retrieval, prompting, message, returned, calls, logging, error>>

\* the caller asks for the next fragment: the generator resumes after its yield
Resume ==
    /\ pc = "suspended"
    /\ pc' = "stream_next"
    /\ UNCHANGED <<process, inputs, standalone, retrieval, prompting, answer, calls, logging, error>>

\* the stream is exhausted: the async for loops end
StreamEnd ==
    /\ pc = "stream_next"
    /\ pc' = AfterCompletion(log_repo)
    /\ UNCHANGED <<process, inputs, standalone, retrieval, prompting, answer, calls, logging, error>>

\* what runs in answer_question_stream once the caller has stopped consuming:
\* GeneratorExit (or CancelledError) is raised at the yield or the pending await;
\* no except clause of the generator catches it and it has no finally
OnClose(has_log_repo) == "cancelled"

\* the caller disconnects: the generator is closed where it is suspended
Cancel ==
    /\ mode = "stream"
    /\ pc \in {"stream_next", "suspended"}
    /\ pc' = OnClose(log_repo)
    /\ UNCHANGED <<process, inputs, standalone, retrieval, prompting, answer, calls, logging, error>>

\* logger.warning("RAG log repository not initialized - skipping logging")
SkipLogging ==
    /\ pc = "skip_log"
    /\ pc' = "done"
    /\ returned' = IF mode = "blocking" THEN message ELSE returned
    /\ UNCHANGED <<process, inputs, standalone, retrieval, prompting, modelOut, message, full_response,
                   yielded, calls, logging, error>>

\* what can happen in the try block around the log write
LogOutcomes == {"inserted", "table_missing", "sink_error", "build_error"}

\* rag_log.py: except Exception ... "Don't re-raise"
RepositorySwallows == TRUE

\* mutant: the service's except clause re-raises
ServiceReraises == FALSE

\* rag.py: except Exception ... "Don't fail the request if logging fails"
ServiceSwallows == TRUE

\* the entry handed to log_rag_query
LogEntry(q, response, cs) ==
    [user_query |-> q, response |-> response, chunks_extracted |-> FormatChunksForLogging(cs)]

\* mutant: the streaming form logs its last fragment only
ResponseLocalLastFragment ==
    IF mode = "blocking" THEN message
    ELSE IF yielded = << >> THEN << >> ELSE yielded[Len(yielded)]

\* the response local handed to the log write
ResponseLocal == IF mode = "blocking" THEN message ELSE full_response

\* the try block: _format_chunks_for_logging, await self._log_repo.log_rag_query(...)
LogRagQuery ==
    /\ pc = "log"
    /\ logAttempts' = logAttempts + 1
    /\ \E outcome \in LogOutcomes :
         LET entry == LogEntry(question, ResponseLocal, chunks)
             called == outcome # "build_error"
             escapes_repository == outcome = "sink_error" /\ ~RepositorySwallows
             escapes == (outcome = "build_error" \/ escapes_repository) /\ ~ServiceSwallows
         IN  /\ logCalls' = IF called THEN Append(logCalls, entry) ELSE logCalls
             /\ logRows' = IF outcome = "inserted" THEN Append(logRows, entry) ELSE logRows
             /\ calls' = IF called THEN Append(calls, Call("log", "", 0)) ELSE calls
             /\ pc' = IF escapes THEN "failed" ELSE "done"
             /\ error' = IF escapes THEN "logging" ELSE error
             /\ returned' = IF mode = "blocking" /\ ~escapes THEN message ELSE returned
    /\ UNCHANGED <<process, inputs, standalone, retrieval, prompting, modelOut, message, full_response, yielded>>

Next ==
    \/ CreateEmbedding
    \/ CreateEmbeddingFails
    \/ PrimarySearch
    \/ KeywordSearch
    \/ ExpandDocuments
    \/ Fallback
    \/ RerankAndAssemble
    \/ ChatCompletion
    \/ OpenStream
    \/ CompletionFails
    \/ StreamDelta
    \/ Resume
    \/ StreamEnd
    \/ Cancel
    \/ SkipLogging
    \/ LogRagQuery

Spec == Init /\ [][Next]_vars

\* ------------------------------------------- _rerank_chunks called on its own
\* candidate lists of mixed provenance: rows with their similarity (vector search)
\* and rows without (keyword, document or recency fetch), chunk_ids distinct
RerankPool == Range(Universe) \cup {AsChunk(Universe[i]) : i \in 1..Len(Universe)}

RerankInputs ==
    {cs \in UNION {[1..n -> RerankPool] : n \in 0..MaxRerankInput} : DistinctIds(cs)}

InitRerank ==
    /\ pc = "rerank_call"
    /\ candidates \in RerankInputs
    /\ question \in Questions
    /\ settings \in [rerank_enabled : BOOLEAN, chunk_limit : 0..MaxChunkLimit,
                     rerank_top_n : {MaxTopN}]
    /\ mode = "blocking"
    /\ history = << >>
    /\ store = << >>
    /\ log_repo = FALSE
    /\ chunks = << >>
    /\ keyword_chunks = << >>
    /\ related_chunks = << >>
    /\ vector_chunks = << >>
    /\ merged = << >>
    /\ retrieved = << >>
    /\ context = << >>
    /\ messages = << >>
    /\ modelOut = << >>
    /\ message = NoneText
    /\ full_response = << >>
    /\ yielded = << >>
    /\ returned = NoneText
    /\ calls = << >>
    /\ logAttempts = 0
    /\ logCalls = << >>
    /\ logRows = << >>
    /\ error = "none"
    /\ app_state = AppStateAtImport
    /\ created = << >>
    /\ requests = << >>
    /\ args = NoneText
    /\ result = NoneText

\* chunks = self._rerank_chunks(candidates, question, top_k=settings.chunk_limit)
RerankCall ==
    /\ pc = "rerank_call"
    /\ chunks' = RerankChunks(candidates, question, settings.chunk_limit,
                              settings.rerank_enabled)
    /\ pc' = "rerank_return"
    /\ UNCHANGED <<process, inputs, standalone, keyword_chunks, related_chunks, vector_chunks, merged, retrieved,
                   candidates, prompting, answer, calls, logging, error>>

NextRerank == RerankCall

SpecRerank == InitRerank /\ [][NextRerank]_vars

\* ------------------------------------ search_similar_chunks called on its own
\* the rows a patient may have, one of them at distance 1 of the question's
\* embedding: its similarity 1 - distance is 0
SearchUniverse ==
    Universe \o << Chunk(9, 3, FileName("far", ".txt"), 3, 0, <<"glucose">>, 0) >>

RowsAmong(U, S) ==
    LET F[k \in 0..Len(U)] ==
            IF k = 0 THEN << >>
            ELSE IF k \in S THEN Append(F[k - 1], U[k]) ELSE F[k - 1]
    IN  F[Len(U)]

SearchStores ==
    {RowsAmong(SearchUniverse, S) :
        S \in {T \in SUBSET (1..Len(SearchUniverse)) : Cardinality(T) <= MaxStore}}

\* SELECT * FROM match_patient_chunks($1, $2, $3, $4): nearest first, rows below
\* min_similarity excluded, at most limit rows
MatchPatientChunks(st, limit, min_similarity) ==
    LET ordering == {p \in Range(st) \X Range(st) : DistanceBefore(p[1], p[2])}
        AtLeast(row) == row.similarity >= min_similarity
    IN  Take(SelectSeq(StableSort(st, ordering), AtLeast), limit)

\* the direct query, ORDER BY distance LIMIT limit, and the manual filter
FallbackQuery(st, limit, min_similarity) ==
    LET ordering == {p \in Range(st) \X Range(st) : DistanceBefore(p[1], p[2])}
        Passes(row) == PassesSimilarity(row, min_similarity)
    IN  SelectSeq(Take(StableSort(st, ordering), limit), Passes)

\* search_similar_chunks on either path, then the loop that keeps the rows with
\* non-blank text
SearchSimilarChunksVia(function_exists, st, limit, min_similarity) ==
    LET rows == IF function_exists THEN MatchPatientChunks(st, limit, min_similarity)
                ELSE FallbackQuery(st, limit, min_similarity)
        NonBlank(row) == ~IsBlank(row.text)
    IN  Take(SelectSeq(rows, NonBlank), limit)

\* min_similarity: the chat threshold, and a threshold of 0
SearchArgs ==
    [limit : 1..MaxSearchLimit, min_similarity : {0, MinSimilarityChat},
     function_exists : BOOLEAN]

InitSearch ==
    /\ pc = "search_call"
    /\ store \in SearchStores
    /\ args \in SearchArgs
    /\ result = NoneText
    /\ question = << >>
    /\ candidates = << >>
    /\ settings \in [rerank_enabled : {FALSE}, chunk_limit : {MaxChunkLimit},
                     rerank_top_n : {MaxTopN}]
    /\ mode = "blocking"
    /\ history = << >>
    /\ log_repo = FALSE
    /\ chunks = << >>
    /\ keyword_chunks = << >>
    /\ related_chunks = << >>
    /\ vector_chunks = << >>
    /\ merged = << >>
    /\ retrieved = << >>
    /\ context = << >>
    /\ messages = << >>
    /\ modelOut = << >>
    /\ message = NoneText
    /\ full_response = << >>
    /\ yielded = << >>
    /\ returned = NoneText
    /\ calls = << >>
    /\ logAttempts = 0
    /\ logCalls = << >>
    /\ logRows = << >>
    /\ error = "none"
    /\ app_state = AppStateAtImport
    /\ created = << >>
    /\ requests = << >>

\* result = await repo.search_similar_chunks(patient_id, embedding, limit,
\* min_similarity=...)
SearchSimilarCall ==
    /\ pc = "search_call"
    /\ result' = SearchSimilarChunksVia(args.function_exists, store, args.limit,
                                        args.min_similarity)
    /\ pc' = "search_return"
    /\ UNCHANGED <<process, inputs, args, retrieval, prompting, answer, calls, logging, error>>

NextSearch == SearchSimilarCall

SpecSearch == InitSearch /\ [][NextSearch]_vars

\* -------------------------------- fetch_chunks_by_documents called on its own
\* the table patient_chunks: the rows of the patient of the requests (patient 1)
\* and the rows of another patient, one of them in a document of the same id
OtherPatientRows ==
    << Chunk(7, 1, FileName("other", ".pdf"), 1, 0, <<"glucose">>, 80),
       Chunk(8, 4, NoneFile, 1, 0, <<"weight">>, 70) >>

PatientChunksTable(st) ==
    [i \in 1..Len(st) |-> [patient_id |-> 1, row |-> st[i]]]
    \o [i \in 1..Len(OtherPatientRows) |-> [patient_id |-> 2, row |-> OtherPatientRows[i]]]

\* WHERE patient_id = $1
PatientRows(table, patient_id) ==
    LET OfPatient(r) == r.patient_id = patient_id
        kept == SelectSeq(table, OfPatient)
    IN  [i \in 1..Len(kept) |-> kept[i].row]

DocumentIdLists == UNION {[1..n -> 1..3] : n \in 0..MaxDocumentIds}

FetchArgs ==
    [patient_id : {1, 2}, document_ids : DocumentIdLists,
     limit_per_document : 1..MaxPerDocument]

InitFetch ==
    /\ pc = "fetch_call"
    /\ store \in Stores
    /\ args \in FetchArgs
    /\ result = NoneText
    /\ question = << >>
    /\ candidates = << >>
    /\ settings \in [rerank_enabled : {FALSE}, chunk_limit : {MaxChunkLimit},
                     rerank_top_n : {MaxTopN}]
    /\ mode = "blocking"
    /\ history = << >>
    /\ log_repo = FALSE
    /\ chunks = << >>
    /\ keyword_chunks = << >>
    /\ related_chunks = << >>
    /\ vector_chunks = << >>
    /\ merged = << >>
    /\ retrieved = << >>
    /\ context = << >>
    /\ messages = << >>
    /\ modelOut = << >>
    /\ message = NoneText
    /\ full_response = << >>
    /\ yielded = << >>
    /\ returned = NoneText
    /\ calls = << >>
    /\ logAttempts = 0
    /\ logCalls = << >>
    /\ logRows = << >>
    /\ error = "none"
    /\ app_state = AppStateAtImport
    /\ created = << >>
    /\ requests = << >>

\* result = await repo.fetch_chunks_by_documents(patient_id, document_ids,
\* limit_per_document); a query is issued unless document_ids is empty
FetchByDocumentsCall ==
    /\ pc = "fetch_call"
    /\ result' = FetchChunksByDocuments(
                     PatientRows(PatientChunksTable(store), args.patient_id),
                     args.document_ids, args.limit_per_document)
    /\ calls' = IF args.document_ids = << >> THEN calls
                ELSE Append(calls, Call("query", "",
                                        Len(args.document_ids) * args.limit_per_document))
    /\ pc' = "fetch_return"
    /\ UNCHANGED <<process, inputs, args, retrieval, prompting, answer, logging, error>>

NextFetch == FetchByDocumentsCall

SpecFetch == InitFetch /\ [][NextFetch]_vars

\* ------------------------------------- _needs_hybrid_search called on its own
\* the words of the questions asked: the words of the patterns, in lower and mixed
\* case, and words that end or begin like them
DeciderWords ==
    {"last", "blast", "LAST", "5", "all", "small", "results", "list", "every", "how",
     "show", "How", "many"}

DeciderQuestions ==
    UNION {[1..n -> DeciderWords] : n \in 1..MaxQuestionWords} \cup {QPlain}

InitDecider ==
    /\ pc = "decide_call"
    /\ question \in DeciderQuestions
    /\ candidates = << >>
    /\ settings \in [rerank_enabled : {FALSE}, chunk_limit : {MaxChunkLimit},
                     rerank_top_n : {MaxTopN}]
    /\ mode = "blocking"
    /\ history = << >>
    /\ store = << >>
    /\ log_repo = FALSE
    /\ chunks = << >>
    /\ keyword_chunks = << >>
    /\ related_chunks = << >>
    /\ vector_chunks = << >>
    /\ merged = << >>
    /\ retrieved = << >>
    /\ context = << >>
    /\ messages = << >>
    /\ modelOut = << >>
    /\ message = NoneText
    /\ full_response = << >>
    /\ yielded = << >>
    /\ returned = NoneText
    /\ calls = << >>
    /\ logAttempts = 0
    /\ logCalls = << >>
    /\ logRows = << >>
    /\ error = "none"
    /\ app_state = AppStateAtImport
    /\ created = << >>
    /\ requests = << >>
    /\ args = NoneText
    /\ result = NoneText

\* result = self._needs_hybrid_search(question)
DecideCall ==
    /\ pc = "decide_call"
    /\ result' = NeedsHybridSearch(QuestionLower(question))
    /\ pc' = "decide_return"
    /\ UNCHANGED <<process, inputs, args, retrieval, prompting, answer, calls, logging, error>>

NextDecider == DecideCall

SpecDecider == InitDecider /\ [][NextDecider]_vars

\* ------------------------------------------- _format_chunks called on its own
\* a chunk whose text is the empty string
EmptyTextChunk == Chunk(6, 3, FileName("scan", ".docx"), 2, 1, << >>, NoneInt)

FormatPool == RerankPool \cup {EmptyTextChunk}

FormatInputs ==
    {cs \in UNION {[1..n -> FormatPool] : n \in 0..MaxFormatInput} : DistinctIds(cs)}

InitFormat ==
    /\ pc = "format_call"
    /\ candidates \in FormatInputs
    /\ question = << >>
    /\ settings \in [rerank_enabled : {FALSE}, chunk_limit : {MaxChunkLimit},
                     rerank_top_n : {MaxTopN}]
    /\ mode = "blocking"
    /\ history = << >>
    /\ store = << >>
    /\ log_repo = FALSE
    /\ chunks = << >>
    /\ keyword_chunks = << >>
    /\ related_chunks = << >>
    /\ vector_chunks = << >>
    /\ merged = << >>
    /\ retrieved = << >>
    /\ context = << >>
    /\ messages = << >>
    /\ modelOut = << >>
    /\ message = NoneText
    /\ full_response = << >>
    /\ yielded = << >>
    /\ returned = NoneText
    /\ calls = << >>
    /\ logAttempts = 0
    /\ logCalls = << >>
    /\ logRows = << >>
    /\ error = "none"
    /\ app_state = AppStateAtImport
    /\ created = << >>
    /\ requests = << >>
    /\ args = NoneText
    /\ result = NoneText

\* context = self._format_chunks(candidates)
FormatCall ==
    /\ pc = "format_call"
    /\ context' = FormatChunks(candidates)
    /\ pc' = "format_return"
    /\ UNCHANGED <<process, inputs, standalone, retrieval, messages, answer, calls, logging, error>>

NextFormat == FormatCall

SpecFormat == InitFormat /\ [][NextFormat]_vars

\* ------------------------------------------------------- patient summaries
\* generate_patient_summary ("blocking") and generate_patient_summary_stream
\* ("stream"): settings also holds max_retrieval_chunks_summary
SummarySettingsSet ==
    [rerank_enabled : BOOLEAN, chunk_limit : 1..MaxChunkLimit, rerank_top_n : {MaxTopN},
     max_retrieval_chunks_summary : 1..MaxSummaryLimit]

\* mutant: the chat limit in place of the summary limit
SummaryLimitChat(s) == s.chunk_limit

\* chunk_limit = self._settings.max_retrieval_chunks_summary
SummaryLimit(s) == s.max_retrieval_chunks_summary

\* the question the summary hands to the completion as its prompt
SummaryQuestion == <<"Instructions:", "SUMMARY_PROMPT", "TEMPORAL CONTEXT", "format">>

\* the completion's content for a summary, as lines
SummaryContents ==
    { NoneText, << >>,
      << <<"HEADLINE:", " ", "Stable">>, <<"BULLETS:">>, <<"-", " ", "bp high">> >>,
      << <<"plain note">> >>,
      << <<" ", "HEADLINE:", " ", "Worse">>, <<"plain note">> >> }

InitSummary ==
    /\ pc = "summary_fetch"
    /\ mode \in {"blocking", "stream"}
    /\ question = << >>
    /\ history = << >>
    /\ store \in Stores
    /\ settings \in SummarySettingsSet
    /\ log_repo \in BOOLEAN
    /\ chunks = << >>
    /\ keyword_chunks = << >>
    /\ related_chunks = << >>
    /\ vector_chunks = << >>
    /\ merged = << >>
    /\ retrieved = << >>
    /\ candidates = << >>
    /\ context = << >>
    /\ messages = << >>
    /\ modelOut = << >>
    /\ message = NoneText
    /\ full_response = << >>
    /\ yielded = << >>
    /\ returned = NoneText
    /\ calls = << >>
    /\ logAttempts = 0
    /\ logCalls = << >>
    /\ logRows = << >>
    /\ error = "none"
    /\ app_state = AppStateAtImport
    /\ created = << >>
    /\ requests = << >>
    /\ args = NoneText
    /\ result = NoneText

\* chunks = await self._repo.fetch_recent_chunks(patient_id, chunk_limit);
\* context = self._format_chunks(chunks); the messages of the completion
SummaryFetch ==
    /\ pc = "summary_fetch"
    /\ chunks' = FetchRecentChunks(store, SummaryLimit(settings))
    /\ calls' = Append(calls, Call("fetch_recent", "", SummaryLimit(settings)))
    /\ context' = FormatChunks(chunks')
    /\ messages' = BuildMessages(SummaryQuestion, context', << >>, << >>)
    /\ pc' = "complete"
    /\ UNCHANGED <<process, inputs, standalone, keyword_chunks, related_chunks, vector_chunks, merged,
                   retrieved, candidates, answer, logging, error>>

\* headline, paragraphs = await self._structured_completion(...); return PatientSummary
SummaryCompletion ==
    /\ pc = "complete"
    /\ mode = "blocking"
    /\ \E content \in SummaryContents :
         /\ modelOut' = <<content>>
         /\ result' = ParseSummary(ContentOrEmpty(content))
    /\ calls' = Append(calls, Call("completion", "", 0))
    /\ pc' = "summary_done"
    /\ UNCHANGED <<process, inputs, args, retrieval, prompting, message, full_response, yielded,
                   returned, logging, error>>

\* async for chunk in self._chat_completion_stream(...): yield chunk
SummaryStreamDelta ==
    /\ pc = "stream_next"
    /\ Len(modelOut) < MaxDeltas
    /\ \E delta \in Deltas :
         /\ modelOut' = Append(modelOut, delta)
         /\ IF DeltaIsYielded(delta)
            THEN /\ yielded' = Append(yielded, delta)
                 /\ pc' = "suspended"
            ELSE /\ pc' = "stream_next"
                 /\ UNCHANGED yielded
    /\ UNCHANGED <<process, inputs, standalone, retrieval, prompting, message, full_response, returned,
                   calls, logging, error>>

\* the stream is exhausted: generate_patient_summary_stream ends
SummaryStreamEnd ==
    /\ pc = "stream_next"
    /\ pc' = "summary_done"
    /\ UNCHANGED <<process, inputs, standalone, retrieval, prompting, answer, calls, logging, error>>

NextSummary ==
    \/ SummaryFetch
    \/ SummaryCompletion
    \/ OpenStream
    \/ CompletionFails
    \/ SummaryStreamDelta
    \/ Resume
    \/ SummaryStreamEnd
    \/ Cancel

SpecSummary == InitSummary /\ [][NextSummary]_vars

\* ------------------------------- the parsing of a summary called on its own
\* the lines a content is made of: markers in either case, indented or not, with
\* and without text after them; bullets with each prefix; a prefix alone; plain
\* text; a blank line
ParseLines ==
    { <<"HEADLINE:", " ", "Stable">>,
      <<" ", "headline:", " ", "Overall Status:", " ", "Worse">>,
      <<" ", "HEADLINE:", "Worse">>,
      <<"HEADLINE:">>,
      <<"BULLETS:">>,
      <<" ", "bullets:", " ">>,
      <<"-", " ", "bp high">>,
      <<"1.", " ", "a1c rising">>,
      <<"*", " ", "weight up">>,
      <<" ", "-", "plain note", " ">>,
      <<"-">>,
      <<"plain note">>,
      << >> }

ParseInputs == UNION {[1..n -> ParseLines] : n \in 0..MaxLines}

InitParse ==
    /\ pc = "parse_call"
    /\ args \in ParseInputs
    /\ result = NoneText
    /\ mode = "blocking"
    /\ question = << >>
    /\ history = << >>
    /\ store = << >>
    /\ settings \in [rerank_enabled : {FALSE}, chunk_limit : {MaxChunkLimit},
                     rerank_top_n : {MaxTopN}]
    /\ log_repo = FALSE
    /\ chunks = << >>
    /\ keyword_chunks = << >>
    /\ related_chunks = << >>
    /\ vector_chunks = << >>
    /\ merged = << >>
    /\ retrieved = << >>
    /\ candidates = << >>
    /\ context = << >>
    /\ messages = << >>
    /\ modelOut = << >>
    /\ message = NoneText
    /\ full_response = << >>
    /\ yielded = << >>
    /\ returned = NoneText
    /\ calls = << >>
    /\ logAttempts = 0
    /\ logCalls = << >>
    /\ logRows = << >>
    /\ error = "none"
    /\ app_state = AppStateAtImport
    /\ created = << >>
    /\ requests = << >>

\* the lines of _structured_completion after the completion, on the content args
ParseCall ==
    /\ pc = "parse_call"
    /\ result' = ParseSummary(args)
    /\ pc' = "parse_return"
    /\ UNCHANGED <<process, inputs, args, retrieval, prompting, answer, calls, logging, error>>

NextParse == ParseCall

SpecParse == InitParse /\ [][NextParse]_vars

\* ------------------------------------- failures of the upstream model calls
\* what the embedding or completion client raises: cause is what went wrong
\* upstream, error_msg is str(e) as tokens
UpstreamFailures ==
    { [cause |-> "unknown_model", type |-> "NotFoundError",
       error_msg |-> <<"The", "model", "does", "not", "exist">>],
      [cause |-> "unknown_model", type |-> "NotFoundError",
       error_msg |-> <<"No", "endpoints", "found", "for", "Model">>],
      [cause |-> "timeout", type |-> "APITimeoutError",
       error_msg |-> <<"Request", "timed", "out.">>],
      [cause |-> "auth", type |-> "AuthenticationError",
       error_msg |-> <<"Incorrect", "API", "key", "provided">>],
      [cause |-> "transient", type |-> "APIConnectionError",
       error_msg |-> <<"Connection", "error.">>],
      [cause |-> "transient", type |-> "InternalServerError",
       error_msg |-> <<"That", "model", "is", "currently", "overloaded">>],
      [cause |-> "transient", type |-> "RateLimitError",
       error_msg |-> <<"Rate", "limit", "exceeded:", "free", "models", "per", "day">>] }

\* error_msg.lower()
ErrorMsgLower(error_msg) ==
    [i \in 1..Len(error_msg) |->
        IF error_msg[i] = "Model" THEN "model" ELSE ToLower(error_msg[i])]

\* "model" in error_msg.lower() or "not found" in error_msg.lower()
LooksLikeModelError(e) ==
    \/ TextContains(ErrorMsgLower(e.error_msg), "model")
    \/ TextContains(ErrorMsgLower(e.error_msg), "not found")

\* provider = "OpenRouter" if use_openrouter and openrouter_api_key else "OpenAI"
Provider(s) == IF s.use_openrouter /\ s.openrouter_api_key THEN "OpenRouter" ELSE "OpenAI"

\* the except clause of _chat_completion / _chat_completion_stream
CompletionRaises(e, s) ==
    IF LooksLikeModelError(e)
    THEN [type |-> "ValueError",
          error_msg |-> IF Provider(s) = "OpenRouter"
                        THEN <<"Invalid", "OpenRouter", "model:", "openai_model",
                               "check", "your", "model", "setting">>
                        ELSE <<"Invalid", "OpenAI", "model:", "openai_model",
                               "check", "your", "OPENAI_MODEL", "setting">>]
    ELSE [type |-> e.type, error_msg |-> e.error_msg]

\* the except clause of _create_embedding
EmbeddingRaises(e) ==
    IF LooksLikeModelError(e)
    THEN [type |-> "ValueError",
          error_msg |-> <<"Invalid", "OpenAI", "embedding", "model:",
                          "openai_embedding_model", "check", "your", "embedding", "model",
                          "setting">>]
    ELSE [type |-> e.type, error_msg |-> e.error_msg]

\* the call that fails, what it raises, and the provider settings
FailureArgs ==
    [stage : {"embed", "completion", "stream"}, e : UpstreamFailures,
     use_openrouter : BOOLEAN, openrouter_api_key : BOOLEAN, mode : {"blocking", "stream"}]

InitFailure ==
    /\ pc = "failure_call"
    /\ args \in {a \in FailureArgs : a.stage = "stream" => a.mode = "stream"}
    /\ result = NoneText
    /\ mode = args.mode
    /\ question = QPlain
    /\ history = << >>
    /\ store = << >>
    /\ settings \in [rerank_enabled : {FALSE}, chunk_limit : {MaxChunkLimit},
                     rerank_top_n : {MaxTopN}]
    /\ log_repo \in BOOLEAN
    /\ chunks = << >>
    /\ keyword_chunks = << >>
    /\ related_chunks = << >>
    /\ vector_chunks = << >>
    /\ merged = << >>
    /\ retrieved = << >>
    /\ candidates = << >>
    /\ context = << >>
    /\ messages = << >>
    /\ modelOut = << >>
    /\ message = NoneText
    /\ full_response = << >>
    /\ yielded = << >>
    /\ returned = NoneText
    /\ calls = << >>
    /\ logAttempts = 0
    /\ logCalls = << >>
    /\ logRows = << >>
    /\ error = "none"
    /\ app_state = AppStateAtImport
    /\ created = << >>
    /\ requests = << >>

\* the upstream call raises e: the except clause raises in its turn, and nothing
\* in answer_question / answer_question_stream catches it
UpstreamCallFails ==
    /\ pc = "failure_call"
    /\ result' = IF args.stage = "embed" THEN EmbeddingRaises(args.e)
                 ELSE CompletionRaises(args.e, args)
    /\ calls' = Append(calls, Call(IF args.stage = "embed" THEN "embed" ELSE "completion",
                                   "", 0))
    /\ error' = IF args.stage = "embed" THEN "embed" ELSE "completion"
    /\ pc' = "failed"
    /\ UNCHANGED <<process, inputs, args, retrieval, prompting, answer, logging>>

NextFailure == UpstreamCallFails

SpecFailure == InitFailure /\ [][NextFailure]_vars

\* -------------------------------- _calculate_recency_score called on its own
InitRecency ==
    /\ pc = "recency_call"
    /\ candidates \in RerankInputs
    /\ question = << >>
    /\ settings \in [rerank_enabled : {TRUE}, chunk_limit : {MaxChunkLimit},
                     rerank_top_n : {MaxTopN}]
    /\ mode = "blocking"
    /\ history = << >>
    /\ store = << >>
    /\ log_repo = FALSE
    /\ chunks = << >>
    /\ keyword_chunks = << >>
    /\ related_chunks = << >>
    /\ vector_chunks = << >>
    /\ merged = << >>
    /\ retrieved = << >>
    /\ context = << >>
    /\ messages = << >>
    /\ modelOut = << >>
    /\ message = NoneText
    /\ full_response = << >>
    /\ yielded = << >>
    /\ returned = NoneText
    /\ calls = << >>
    /\ logAttempts = 0
    /\ logCalls = << >>
    /\ logRows = << >>
    /\ error = "none"
    /\ app_state = AppStateAtImport
    /\ created = << >>
    /\ requests = << >>
    /\ args = NoneText
    /\ result = NoneText

\* recency_score = self._calculate_recency_score(chunks, chunk), for each chunk of
\* the list as the loop of _rerank_chunks calls it
RecencyCall ==
    /\ pc = "recency_call"
    /\ result' = [i \in 1..Len(candidates) |->
                     CalculateRecencyScore(candidates, candidates[i])]
    /\ pc' = "recency_return"
    /\ UNCHANGED <<process, inputs, args, retrieval, prompting, answer, calls, logging, error>>

NextRecency == RecencyCall

SpecRecency == InitRecency /\ [][NextRecency]_vars

\* -------------------------------- _calculate_keyword_score called on its own
\* a chunk whose text repeats one word
RepeatingChunk ==
    Chunk(10, 3, FileName("panel", ".pdf"), 1, 0,
          <<"glucose", "glucose", "glucose", "glucose", "glucose">>, NoneInt)

KeywordPool == FormatPool \cup {RepeatingChunk}

\* questions with no significant word, with a repeated word, with every word in
\* one chunk's text
KeywordQuestions ==
    Questions \cup {<<"how", "is", "it">>, <<"glucose", "glucose">>,
                    <<"triglyceride", "level">>, <<"glucose", "weight">>}

InitKeyword ==
    /\ pc = "keyword_call"
    /\ args \in [chunk : KeywordPool, question : KeywordQuestions]
    /\ result = NoneText
    /\ question = << >>
    /\ settings \in [rerank_enabled : {TRUE}, chunk_limit : {MaxChunkLimit},
                     rerank_top_n : {MaxTopN}]
    /\ mode = "blocking"
    /\ history = << >>
    /\ store = << >>
    /\ log_repo = FALSE
    /\ chunks = << >>
    /\ keyword_chunks = << >>
    /\ related_chunks = << >>
    /\ vector_chunks = << >>
    /\ merged = << >>
    /\ retrieved = << >>
    /\ candidates = << >>
    /\ context = << >>
    /\ messages = << >>
    /\ modelOut = << >>
    /\ message = NoneText
    /\ full_response = << >>
    /\ yielded = << >>
    /\ returned = NoneText
    /\ calls = << >>
    /\ logAttempts = 0
    /\ logCalls = << >>
    /\ logRows = << >>
    /\ error = "none"
    /\ app_state = AppStateAtImport
    /\ created = << >>
    /\ requests = << >>

\* keyword_score = self._calculate_keyword_score(chunk, question), with the
\* occurrence bonus it computed on the way (0 on the early returns)
KeywordCall ==
    /\ pc = "keyword_call"
    /\ result' = [score |-> CalculateKeywordScore(args.chunk, args.question),
                  occurrence_bonus |->
                      IF args.chunk.text = NoneText \/ args.chunk.text = << >>
                         \/ QuestionWords(args.question) = << >>
                      THEN 0
                      ELSE OccurrenceBonus(args.chunk, QuestionWords(args.question))]
    /\ pc' = "keyword_return"
    /\ UNCHANGED <<process, inputs, args, retrieval, prompting, answer, calls, logging, error>>

NextKeyword == KeywordCall

SpecKeyword == InitKeyword /\ [][NextKeyword]_vars

\* ------------------------- the keyword search term of two runs on one question
\* the words of the questions: hybrid triggers, lab terms of equal length, a plural
KeywordChoiceWords == {"list", "all", "ldl", "hdl", "triglycerides", "glucose", "of"}

KeywordChoiceQuestions ==
    UNION {[1..n -> KeywordChoiceWords] : n \in 1..MaxQuestionWords}

\* the keyword searches one run issues for a question: none when the hybrid branch
\* is not taken, otherwise one, its term max(lab_keywords, key=len) in the
\* iteration order of the set of this run's process
KeywordSearchesIssued(q) ==
    IF HybridFires(q)
    THEN {<<Call("search_keyword", k, 0)>> : k \in PrimaryKeywords(ExtractLabKeywords(q))}
    ELSE {<< >>}

InitKeywordChoice ==
    /\ pc = "choice_call"
    /\ args \in KeywordChoiceQuestions
    /\ result = NoneText
    /\ question = << >>
    /\ settings \in [rerank_enabled : {TRUE}, chunk_limit : {MaxChunkLimit},
                     rerank_top_n : {MaxTopN}]
    /\ mode = "blocking"
    /\ history = << >>
    /\ store = << >>
    /\ log_repo = FALSE
    /\ chunks = << >>
    /\ keyword_chunks = << >>
    /\ related_chunks = << >>
    /\ vector_chunks = << >>
    /\ merged = << >>
    /\ retrieved = << >>
    /\ candidates = << >>
    /\ context = << >>
    /\ messages = << >>
    /\ modelOut = << >>
    /\ message = NoneText
    /\ full_response = << >>
    /\ yielded = << >>
    /\ returned = NoneText
    /\ calls = << >>
    /\ logAttempts = 0
    /\ logCalls = << >>
    /\ logRows = << >>
    /\ error = "none"
    /\ app_state = AppStateAtImport
    /\ created = << >>
    /\ requests = << >>

\* two runs of lines 384-394 on the question args, each in a process of its own
KeywordChoiceCall ==
    /\ pc = "choice_call"
    /\ \E first \in KeywordSearchesIssued(QuestionLower(args)),
          second \in KeywordSearchesIssued(QuestionLower(args)) :
          result' = [first |-> first, second |-> second]
    /\ pc' = "choice_return"
    /\ UNCHANGED <<process, inputs, args, retrieval, prompting, answer, calls, logging, error>>

NextKeywordChoice == KeywordChoiceCall

SpecKeywordChoice == InitKeywordChoice /\ [][NextKeywordChoice]_vars

\* ------------------------------------------- lazy application-state start-up
\* Requests are tasks of one event loop: a task runs until it awaits something
\* that suspends it, here the creation of a connection pool.
InitStartup ==
    /\ pc = "serving"
    /\ app_state = AppStateAtImport
    /\ created = << >>
    /\ requests = [r \in 1..MaxRequests |-> "waiting"]
    /\ mode = "blocking"
    /\ question = << >>
    /\ history = << >>
    /\ store = << >>
    /\ settings \in [rerank_enabled : {TRUE}, chunk_limit : {MaxChunkLimit},
                     rerank_top_n : {MaxTopN}]
    /\ log_repo = TRUE
    /\ chunks = << >>
    /\ keyword_chunks = << >>
    /\ related_chunks = << >>
    /\ vector_chunks = << >>
    /\ merged = << >>
    /\ retrieved = << >>
    /\ candidates = << >>
    /\ context = << >>
    /\ messages = << >>
    /\ modelOut = << >>
    /\ message = NoneText
    /\ full_response = << >>
    /\ yielded = << >>
    /\ returned = NoneText
    /\ calls = << >>
    /\ logAttempts = 0
    /\ logCalls = << >>
    /\ logRows = << >>
    /\ error = "none"
    /\ args = NoneText
    /\ result = NoneText

\* a pool or service created by request r; its identity is its place in created
Created(kind, r) == [kind |-> kind, by |-> r]

\* ensure_initialized up to its first suspension: the test of the middleware, the
\* test of initialize_app_state, and the start of PatientChunkRepository.create
EnsureInitialized(r) ==
    /\ requests[r] = "waiting"
    /\ requests' = [requests EXCEPT ![r] =
                        IF app_state.initialized THEN "call_next" ELSE "create_chunk_repo"]
    /\ UNCHANGED <<pc, app_state, created, inputs, standalone, retrieval, prompting, answer,
                   calls, logging, error>>

\* PatientChunkRepository.create returns: _app_state["chunk_repo"] is assigned and
\* RagLogRepository.create is awaited
ChunkRepoCreated(r) ==
    /\ requests[r] = "create_chunk_repo"
    /\ created' = Append(created, Created("chunk_pool", r))
    /\ app_state' = [app_state EXCEPT !.chunk_repo = Len(created')]
    /\ requests' = [requests EXCEPT ![r] = "create_log_repo"]
    /\ UNCHANGED <<pc, inputs, standalone, retrieval, prompting, answer, calls, logging, error>>

\* RagLogRepository.create returns: _app_state["log_repo"] is assigned, RagService
\* is built on the repositories _app_state holds now, initialized is set, and the
\* middleware goes on to call_next
LogRepoCreated(r) ==
    /\ requests[r] = "create_log_repo"
    /\ created' = created \o <<Created("log_pool", r), Created("rag_service", r)>>
    /\ app_state' = [app_state EXCEPT !.log_repo = Len(created) + 1,
                                      !.rag_service = Len(created) + 2,
                                      !.initialized = TRUE]
    /\ requests' = [requests EXCEPT ![r] = "call_next"]
    /\ UNCHANGED <<pc, inputs, standalone, retrieval, prompting, answer, calls, logging, error>>

NextStartup ==
    \E r \in 1..MaxRequests :
        \/ EnsureInitialized(r)
        \/ ChunkRepoCreated(r)
        \/ LogRepoCreated(r)

SpecStartup == InitStartup /\ [][NextStartup]_vars

\* ------------------------------------------------------------------ claims
Called(op) == \E i \in 1..Len(calls) : calls[i].op = op

CountCalls(op) == Cardinality({i \in 1..Len(calls) : calls[i].op = op})

\* the concatenation of a sequence of fragments
Flatten(fragments) ==
    LET F[k \in 0..Len(fragments)] ==
            IF k = 0 THEN << >> ELSE F[k - 1] \o fragments[k]
    IN  F[Len(fragments)]

\* the text the model produced: its contents or deltas in order, None being no text
ModelText(out) ==
    LET F[k \in 0..Len(out)] ==
            IF k = 0 THEN << >>
            ELSE IF out[k] = NoneText THEN F[k - 1] ELSE F[k - 1] \o out[k]
    IN  F[Len(out)]

\* C1: when the caller stops consuming answer_question_stream mid-stream, no further
\* fragment is forwarded and exactly one log write is still attempted, carrying the
\* partial answer accumulated so far (stated for a service that has a log repository)
C1_CancelStillLogs ==
    (pc = "cancelled" /\ log_repo) =>
        /\ logAttempts = 1
        /\ Len(logCalls) = 1
        /\ logCalls[1].response = full_response

\* C2 as claimed: once the completion has finished (the stream is exhausted) and the
\* request is over, exactly one log entry has been emitted for it
C2_ExactlyOneLog == pc = "done" => logAttempts = 1

\* C2 as amended: a request that runs to its end attempts exactly one log write when
\* the service has a log repository and none when it has none; no request attempts
\* more than one, none is attempted before the completion has finished, and an
\* attempt hands at most one entry to the sink, which inserts at most one row
C2_OneLogWhenConfigured ==
    /\ logAttempts <= 1
    /\ Len(logCalls) <= logAttempts
    /\ Len(logRows) <= Len(logCalls)
    /\ CountCalls("log") = Len(logCalls)
    /\ pc = "done" => logAttempts = (IF log_repo THEN 1 ELSE 0)
    /\ pc # "done" => logAttempts = 0

C2_Witness ==
    /\ pc = "done"
    /\ logAttempts = 1
    /\ Called("fetch_recent")
    /\ Called("search_keyword")

\* C3 as claimed: at the moment the completion is invoked the chunk set is non-empty
\* and the assembled context is not the no-context sentinel
C3_NeverZeroContext == pc = "complete" => (chunks # << >> /\ context # NoContext)

\* C3 as amended (chunk_limit >= 1, rerank_top_n >= 1): the completion is invoked
\* with an empty chunk set only after the recency fallback has been called and has
\* returned nothing, and the assembled context is the no-context sentinel exactly
\* when no chunk of the final set has non-blank text
C3_ZeroContextOnlyAfterEmptyFallback ==
    pc = "complete" =>
        /\ chunks = << >> =>
              (Called("fetch_recent") /\ FetchRecentChunks(store, RetrievalLimit(settings)) = << >>)
        /\ context = NoContext <=> \A i \in 1..Len(chunks) : IsBlank(chunks[i].text)

C3_Witness == pc = "complete" /\ chunks = << >> /\ context = NoContext /\ Called("fetch_recent")

\* C4: the chunk set handed to context assembly and completion holds at most
\* chunk_limit chunks on every path
C4_AtMostChunkLimit ==
    pc \in {"complete", "stream_next", "suspended", "log", "skip_log", "done"} =>
        Len(chunks) <= settings.chunk_limit

\* C5: the fragments answer_question_stream yields, concatenated in order, are the
\* string answer_question returns for the same output of the model
C5_StreamConcatEqualsAnswer ==
    pc = "done" =>
        /\ mode = "stream" => Flatten(yielded) = ModelText(modelOut)
        /\ mode = "blocking" => returned = ModelText(modelOut)

C5_Witness ==
    /\ pc = "done"
    /\ mode = "stream"
    /\ Len(yielded) >= 1
    /\ Len(modelOut) > Len(yielded)

\* C6: whatever happens in the log write, the request ends normally: no error
\* reaches the caller, the fragments already yielded stay as they are and
\* answer_question returns the completion's message
C6_LogFailureInvisible ==
    [][pc = "log" =>
          /\ pc' = "done"
          /\ error' = "none"
          /\ yielded' = yielded
          /\ (mode = "blocking" => returned' = message)]_vars

C6_Witness ==
    /\ pc = "done"
    /\ logAttempts = 1
    /\ logRows = << >>
    /\ mode = "blocking"
    /\ returned = message
    /\ returned # << >>

\* C7 as claimed: _rerank_chunks returns its input unchanged whenever
\* len(input) <= top_k or re-ranking is disabled
C7_UnchangedWhenSmallOrDisabled ==
    pc = "rerank_return" =>
        ((Len(candidates) <= settings.chunk_limit \/ ~settings.rerank_enabled) =>
            chunks = candidates)

\* C7 as amended (top_k >= 0): _rerank_chunks returns its input unchanged whenever
\* len(input) <= top_k; when re-ranking is disabled and len(input) > top_k it returns
\* the first top_k chunks of its input, in input order
C7_UnchangedWhenSmallTruncatedWhenDisabled ==
    pc = "rerank_return" =>
        /\ Len(candidates) <= settings.chunk_limit => chunks = candidates
        /\ (~settings.rerank_enabled /\ Len(candidates) > settings.chunk_limit) =>
              chunks = SubSeq(candidates, 1, settings.chunk_limit)

C7_Witness ==
    /\ pc = "rerank_return"
    /\ ~settings.rerank_enabled
    /\ settings.chunk_limit >= 1
    /\ Len(candidates) > settings.chunk_limit
    /\ Len(chunks) = settings.chunk_limit

\* C8: _rerank_chunks never returns more than top_k chunks; enabled and given more
\* than top_k chunks it returns exactly top_k of them, none twice, in non-increasing
\* composite-score order, and no omitted chunk scores strictly higher than a
\* returned one
C8_TopKByCompositeScore ==
    pc = "rerank_return" =>
        LET top_k == settings.chunk_limit
            Score(c) == CompositeScore(candidates, c, question)
        IN  /\ Len(chunks) <= top_k
            /\ (settings.rerank_enabled /\ Len(candidates) > top_k) =>
                  /\ Len(chunks) = top_k
                  /\ Range(chunks) \subseteq Range(candidates)
                  /\ DistinctIds(chunks)
                  /\ \A i \in 1..Len(chunks) - 1 : Score(chunks[i]) >= Score(chunks[i + 1])
                  /\ \A c \in Range(candidates) \ Range(chunks) :
                        \A r \in Range(chunks) : Score(c) <= Score(r)

C8_Witness ==
    /\ pc = "rerank_return"
    /\ settings.rerank_enabled
    /\ settings.chunk_limit >= 2
    /\ Len(candidates) > settings.chunk_limit
    /\ chunks # SubSeq(candidates, 1, settings.chunk_limit)

\* C9: fetch_recent_chunks(patient, retrieval_limit) is called if and only if the
\* chunk list is empty after the primary search and any hybrid augmentation; its
\* result replaces the chunk list before re-ranking; an empty retrieval is never an
\* error for the caller
C9_FallbackIffEmpty ==
    /\ pc \in {"embed", "search", "keyword", "expand", "fallback"} => ~Called("fetch_recent")
    /\ pc = "fallback" => chunks = << >>
    /\ pc \in {"rerank", "complete", "stream_next", "suspended", "log", "skip_log", "done",
               "cancelled"} =>
          /\ Called("fetch_recent") <=> retrieved = << >>
          /\ CountCalls("fetch_recent") <= 1
          /\ \A i \in 1..Len(calls) :
                calls[i].op = "fetch_recent" => calls[i].limit = RetrievalLimit(settings)
          /\ Called("fetch_recent") =>
                (IF pc = "rerank" THEN chunks ELSE candidates)
                    = FetchRecentChunks(store, RetrievalLimit(settings))
    /\ pc = "failed" => error \in {"embedding", "completion"}

C9_Witness ==
    /\ pc = "done"
    /\ Called("search_keyword")
    /\ retrieved = << >>
    /\ Called("fetch_recent")
    /\ candidates # << >>

\* the chunks of a list whose chunk_id occurs at no earlier position
FirstOccurrences(cs) ==
    LET First(i) == \A j \in 1..(i - 1) : cs[j].chunk_id # cs[i].chunk_id
        F[k \in 0..Len(cs)] ==
            IF k = 0 THEN << >>
            ELSE IF First(k) THEN Append(F[k - 1], cs[k]) ELSE F[k - 1]
    IN  F[Len(cs)]

HybridMerged ==
    /\ Called("search_keyword")
    /\ pc \in {"fallback", "rerank", "complete", "stream_next", "suspended", "log",
               "skip_log", "done", "cancelled", "failed"}

\* C10: the hybrid merge deduplicates by chunk_id: the merged list holds no chunk_id
\* twice, it is the list of first occurrences in the order vector, keyword,
\* expansion, and merging the keyword or the expansion results once more changes
\* nothing
C10_MergeDedupByChunkId ==
    HybridMerged =>
        /\ DistinctIds(vector_chunks)
        /\ DistinctIds(merged)
        /\ merged = FirstOccurrences(vector_chunks \o keyword_chunks \o related_chunks)
        /\ MergeDedup(merged, keyword_chunks) = merged
        /\ MergeDedup(merged, related_chunks) = merged

C10_Witness ==
    /\ HybridMerged
    /\ vector_chunks # << >>
    /\ Len(merged) > Len(vector_chunks)
    /\ Len(merged) < Len(vector_chunks) + Len(keyword_chunks) + Len(related_chunks)
    /\ \E i \in 1..Len(related_chunks) :
          related_chunks[i].chunk_id \notin ChunkIds(vector_chunks \o keyword_chunks)

\* C11: after hybrid augmentation the chunk list holds at most 2 x retrieval_limit
\* chunks (retrieval_limit being rerank_top_n when re-ranking is enabled and
\* chunk_limit otherwise): it is the merged list cut to its first 2 x retrieval_limit
\* chunks, whatever the vector, keyword and expansion results hold
C11_MergedAtMostTwiceRetrievalLimit ==
    HybridMerged =>
        /\ Len(retrieved) <= 2 * RetrievalLimit(settings)
        /\ retrieved = Take(merged, 2 * RetrievalLimit(settings))
        /\ RetrievalLimit(settings) =
              (IF settings.rerank_enabled THEN settings.rerank_top_n ELSE settings.chunk_limit)

C11_Witness ==
    /\ HybridMerged
    /\ related_chunks # << >>
    /\ Len(merged) > 2 * RetrievalLimit(settings)
    /\ Len(retrieved) = 2 * RetrievalLimit(settings)

\* the pieces of a text between the occurrences of the token sep
SplitOn(text, sep) ==
    LET F[k \in 0..Len(text)] ==
            IF k = 0 THEN << << >> >>
            ELSE IF text[k] = sep THEN Append(F[k - 1], << >>)
            ELSE [F[k - 1] EXCEPT ![Len(F[k - 1])] = Append(@, text[k])]
    IN  F[Len(text)]

\* the positions of the chunks of a list whose text is not absent, empty or blank
NonBlankPositions(cs) ==
    {i \in 1..Len(cs) :
        /\ cs[i].text # NoneText
        /\ cs[i].text # << >>
        /\ \E j \in 1..Len(cs[i].text) : cs[i].text[j] # " "}

\* C12: _format_chunks emits one block per chunk with non-blank text, in input
\* order, and none for a chunk whose text is absent, empty or whitespace-only; it
\* returns the sentinel "No patient context available." if and only if no chunk has
\* non-blank text
C12_OneBlockPerNonBlankChunk ==
    pc = "format_return" =>
        LET kept == NonBlankPositions(candidates)
            blocks == SplitOn(context, "\n\n")
            Nth(k) == CHOOSE i \in kept : Cardinality({j \in kept : j < i}) = k - 1
        IN  /\ context = NoContext <=> kept = {}
            /\ kept # {} =>
                  /\ Len(blocks) = Cardinality(kept)
                  /\ \A k \in 1..Len(blocks) :
                        LET block == blocks[k]
                            text == candidates[Nth(k)].text
                        IN  /\ block[1] = "Document: "
                            /\ Len(block) > Len(text)
                            /\ SubSeq(block, Len(block) - Len(text) + 1, Len(block)) = text
                            /\ block = FormatBlock(candidates[Nth(k)])

C12_Witness ==
    /\ pc = "format_return"
    /\ Len(candidates) = 3
    /\ Cardinality(NonBlankPositions(candidates)) = 2
    /\ IsBlank(candidates[2].text)
    /\ Len(SplitOn(context, "\n\n")) = 2

\* a message that carries the patient context
IsContextMessage(m) ==
    /\ m.role = "system"
    /\ Len(m.content) >= 1
    /\ m.content[1] = "Patient Context:\n"

\* C13: the messages passed to the completion, blocking and streaming alike, are in
\* this order the fixed role instruction, the patient-context message, the task
\* instruction, the history turns in their given order and the current question;
\* the patient-context message is there if and only if the assembled context is not
\* the no-context sentinel
C13_MessageOrder ==
    pc \in {"complete", "stream_next", "suspended", "log", "skip_log", "done", "cancelled"} =>
        LET has_context == context # NoContext
            off == IF has_context THEN 1 ELSE 0
            n == Len(messages)
        IN  /\ n = 3 + off + Len(history)
            /\ messages[1] = Message("system", <<"SYSTEM_PROMPT">>)
            /\ has_context =>
                  /\ IsContextMessage(messages[2])
                  /\ SubSeq(messages[2].content, 2, 1 + Len(context)) = context
            /\ Cardinality({i \in 1..n : IsContextMessage(messages[i])}) = off
            /\ messages[2 + off] = Message("system", EnhancedChatPrompt)
            /\ \A i \in 1..Len(history) : messages[2 + off + i] = history[i]
            /\ messages[n] = Message("user", question)

C13_Witness ==
    /\ pc = "stream_next"
    /\ context # NoContext
    /\ Len(history) = 2
    /\ Len(messages) = 6
    /\ messages[4] = history[1]

\* the phrases the hybrid trigger is claimed to fire on
TriggerPhrases ==
    {<<"last", "5">>, <<"all", "results">>, <<"list", "every">>, <<"how", "many">>}

\* the spellings of a word in other letter cases
Spellings(w) ==
    CASE w = "last" -> {"last", "LAST"}
      [] w = "how" -> {"how", "How"}
      [] OTHER -> {w}

\* the phrase occurs in the question as a string, in any letter case: some word ends
\* with the phrase's first word and the next word begins with its second
ContainsPhrase(q, phrase) ==
    \E i \in 1..Len(q) - 1 :
        /\ q[i] \in {p \o w : p \in {"", "b", "s", "sm"}, w \in Spellings(phrase[1])}
        /\ q[i + 1] \in {w \o s : w \in Spellings(phrase[2]), s \in {"", "s"}}

\* the phrase occurs in the question as whole words, in any letter case
ContainsWords(q, phrase) ==
    \E i \in 1..Len(q) - 1 :
        q[i] \in Spellings(phrase[1]) /\ q[i + 1] \in Spellings(phrase[2])

\* C14 as claimed: _needs_hybrid_search is true for every question containing
\* "last 5", "all results", "list every" or "how many" in any letter case, and false
\* for "what is the most recent glucose level"
C14_TriggersOnContainedPhrases ==
    pc = "decide_return" =>
        /\ \A phrase \in TriggerPhrases : ContainsPhrase(question, phrase) => result = TRUE
        /\ question = QPlain => result = FALSE

\* C14 as amended: _needs_hybrid_search is true for every question in which
\* "last 5", "all results", "list every" or "how many" occurs as whole words, in any
\* letter case, and false for "what is the most recent glucose level"
C14_TriggersOnWholeWordPhrases ==
    pc = "decide_return" =>
        /\ \A phrase \in TriggerPhrases : ContainsWords(question, phrase) => result = TRUE
        /\ question = QPlain => result = FALSE

C14_Witness ==
    /\ pc = "decide_return"
    /\ question = <<"show", "How", "many">>
    /\ result = TRUE

\* the terms handed to search_chunks_by_keyword
SearchTerms == {calls[i].keyword : i \in {j \in 1..Len(calls) : calls[j].op = "search_keyword"}}

\* the plural forms the vocabulary matches
PluralForms == {t \o "s" : t \in LabPluralTerms}

\* C15 as claimed: the term passed to the keyword search is one of maximum length
\* among the extracted keywords; for "list all triglyceride readings" it is
\* "triglyceride"; a plural form is an auxiliary candidate only, never the search term
C15_PluralNeverSearchTerm ==
    \A term \in SearchTerms :
        /\ term \in ExtractLabKeywords(question)
        /\ \A k \in ExtractLabKeywords(question) : Len(k) <= Len(term)
        /\ question = QList => term = "triglyceride"
        /\ term \notin PluralForms

\* C15 as amended: the term passed to the keyword search is one of maximum length
\* among the extracted keywords; for "list all triglyceride readings" only
\* "triglyceride" is extracted and it is the term; when the question holds the plural
\* "triglycerides" both forms are extracted and the plural, being longer, is the term
C15_LongestKeywordIsSearchTerm ==
    \A term \in SearchTerms :
        /\ term \in ExtractLabKeywords(question)
        /\ \A k \in ExtractLabKeywords(question) : Len(k) <= Len(term)
        /\ question = QList =>
              (ExtractLabKeywords(question) = {"triglyceride"} /\ term = "triglyceride")
        /\ question = QPlural =>
              /\ ExtractLabKeywords(question) = {"triglyceride", "triglycerides"}
              /\ term = "triglycerides"

C15_Witness ==
    /\ question = QPlural
    /\ SearchTerms = {"triglycerides"}
    /\ keyword_chunks # << >>

\* C16: when the hybrid trigger fires but the question holds no vocabulary keyword
\* ("how many visits"), or when the trigger does not fire ("what is the most recent
\* glucose level"), the request never enters the hybrid step: no keyword search and
\* no document-expansion call is made, and the chunk list after the step is the
\* result of the primary vector search, unchanged
C16_HybridSkippedLeavesVectorResult ==
    question \in {QNoKeyword, QPlain} =>
        /\ pc \notin {"keyword", "expand"}
        /\ ~Called("search_keyword")
        /\ ~Called("fetch_documents")
        /\ keyword_chunks = << >> /\ related_chunks = << >>
        /\ Called("search_similar") =>
              /\ retrieved = vector_chunks
              /\ vector_chunks =
                    SearchSimilarChunks(store, RetrievalLimit(settings), MinSimilarityChat)
              /\ pc = "fallback" <=> (vector_chunks = << >> /\ ~Called("fetch_recent"))

C16_Witness ==
    /\ question = QNoKeyword
    /\ pc = "complete"
    /\ vector_chunks # << >>
    /\ candidates = vector_chunks
    /\ \E i \in 1..Len(store) : TextContains(store[i].text, "triglyceride")

\* the chunk_ids of the table's rows of one patient in the given documents
IdsOfPatientInDocuments(table, patient_id, document_ids) ==
    {table[i].row.chunk_id :
        i \in {j \in 1..Len(table) :
                  /\ table[j].patient_id = patient_id
                  /\ \E k \in 1..Len(document_ids) : table[j].row.document_id = document_ids[k]}}

\* C17: fetch_chunks_by_documents returns at most len(document_ids) x
\* limit_per_document chunks, every one a row of the given patient in one of the
\* given documents; for an empty document_ids it returns an empty list and issues no
\* query
C17_FetchByDocumentsBounded ==
    pc = "fetch_return" =>
        /\ Len(result) <= Len(args.document_ids) * args.limit_per_document
        /\ DistinctIds(result)
        /\ ChunkIds(result) \subseteq
              IdsOfPatientInDocuments(PatientChunksTable(store), args.patient_id,
                                      args.document_ids)
        /\ args.document_ids = << >> => (result = << >> /\ calls = << >>)
        /\ args.document_ids # << >> => Len(calls) = 1

C17_Witness ==
    /\ pc = "fetch_return"
    /\ args.patient_id = 1
    /\ args.document_ids = <<1>>
    /\ args.limit_per_document = 1
    /\ Len(result) = 1
    /\ Cardinality(IdsOfPatientInDocuments(PatientChunksTable(store), 1, <<1>>)) = 2

\* the rows of a store nearest first
NearestFirst(st) ==
    StableSort(st, {p \in Range(st) \X Range(st) : p[1].similarity > p[2].similarity})

\* C18: search_similar_chunks gives the same result on the stored-function path and
\* on the fallback scan; on either path every returned chunk has similarity >=
\* min_similarity, no row among the limit nearest with similarity >= min_similarity
\* and non-blank text is dropped (min_similarity <= 0 included), the result is in
\* ascending-distance order, holds at most limit chunks and only non-blank text
C18_PathsAgreeFilterExact ==
    pc = "search_return" =>
        /\ result = SearchSimilarChunksVia(~args.function_exists, store, args.limit,
                                           args.min_similarity)
        /\ \A i \in 1..Len(result) : result[i].similarity >= args.min_similarity
        /\ \A row \in Range(Take(NearestFirst(store), args.limit)) :
              (row.similarity >= args.min_similarity /\ ~IsBlank(row.text)) =>
                  row \in Range(result)
        /\ \A i \in 1..Len(result) - 1 : result[i].similarity >= result[i + 1].similarity
        /\ Len(result) <= args.limit
        /\ \A i \in 1..Len(result) : ~IsBlank(result[i].text)

\* C19: patient-summary generation, blocking and streaming, performs exactly one
\* store call, fetch_recent_chunks(patient, max_retrieval_chunks_summary), and no
\* embedding, vector search, keyword search, document expansion, re-ranking or
\* second fetch, whatever the store returned: once the fetch is made the calls are
\* that one fetch followed by at most the completion, and chunks stays what the
\* fetch returned.
C19_SummaryFetchesRecentOnce ==
    /\ \A i \in 1..Len(calls) : calls[i].op \in {"fetch_recent", "completion"}
    /\ CountCalls("fetch_recent") = (IF pc = "summary_fetch" THEN 0 ELSE 1)
    /\ CountCalls("completion") <= 1
    /\ pc # "summary_fetch" =>
         /\ calls[1] = Call("fetch_recent", "", settings.max_retrieval_chunks_summary)
         /\ chunks = Take(AsChunks(store), settings.max_retrieval_chunks_summary)
         /\ context = FormatChunks(chunks)
    /\ keyword_chunks = << >> /\ related_chunks = << >> /\ vector_chunks = << >>
    /\ merged = << >> /\ candidates = << >>

\* a summary ran to its end on a store that returned nothing: the one fetch, then
\* the completion, and no second fetch
C19_Witness ==
    /\ pc = "summary_done"
    /\ chunks = << >>
    /\ calls = <<Call("fetch_recent", "", settings.max_retrieval_chunks_summary),
                 Call("completion", "", 0)>>

\* the stripped non-blank lines of a content that are not header lines, a header
\* line being one whose text starts with the HEADLINE: marker
NonHeaderLines(content) ==
    LET F[k \in 0..Len(content)] ==
            IF k = 0 THEN << >>
            ELSE IF Strip(content[k]) # << >> /\ ~StartsWithHeadline(Strip(content[k]))
                 THEN Append(F[k - 1], Strip(content[k])) ELSE F[k - 1]
    IN  F[Len(content)]

\* C20: for every model output, the empty one and one without markers included,
\* summary parsing returns a headline beginning with "Overall Status:" and at least
\* one bullet, chosen by the priority chain: the lines parsed after the BULLETS:
\* marker if any; otherwise the bullet-looking lines anywhere; otherwise all
\* non-header lines; otherwise the raw output as a single item.
C20_ParseFallbackChain ==
    pc = "parse_return" =>
        /\ result.headline # << >> /\ result.headline[1] = "Overall Status:"
        /\ Len(result.bullets) >= 1
        /\ result.bullets =
               IF ScanLines(args).bullets # << >> THEN ScanLines(args).bullets
               ELSE IF BulletLookingLines(args) # << >> THEN BulletLookingLines(args)
               ELSE IF NonHeaderLines(args) # << >> THEN NonHeaderLines(args)
               ELSE <<RawOutput(args)>>

\* C21: a completion or embedding failure caused by an unrecognised model
\* identifier is raised as a configuration error (ValueError) naming the model
\* setting, every other upstream failure (timeout, auth failure, transient error)
\* propagates as a distinct, non-configuration error, and in neither case is an
\* answer returned.
C21_ConfigurationErrorIffUnknownModel ==
    pc = "failed" =>
        /\ (result.type = "ValueError") <=> (args.e.cause = "unknown_model")
        /\ result.type = "ValueError" =>
               \E i \in 1..Len(result.error_msg) :
                   result.error_msg[i] \in {"openai_model", "openai_embedding_model"}
        /\ result.type # "ValueError" => result.type = args.e.type
        /\ returned = NoneText /\ message = NoneText /\ yielded = << >>

\* C22: for a list of n > 1 distinct chunks _calculate_recency_score is
\* non-increasing in the chunk's index, is exactly 1.0 for the first element and
\* lies in [0.1, 1]; for a single-element list it is 1.0. Scores are in permille.
C22_RecencyNonIncreasing ==
    pc = "recency_return" =>
        /\ \A i \in 1..Len(result) : 100 <= result[i] /\ result[i] <= 1000
        /\ Len(result) >= 1 => result[1] = 1000
        /\ \A i, j \in 1..Len(result) : i < j => result[i] >= result[j]

\* the scores of a list of three distinct chunks, strictly falling from 1.0
C22_Witness ==
    /\ pc = "recency_return"
    /\ Len(candidates) = 3
    /\ result[1] = 1000 /\ result[1] > result[2] /\ result[2] > result[3]

\* the text of every significant word of the question occurs in the chunk
AllTermsOccur(chunk, q) ==
    /\ chunk.text # NoneText
    /\ \A w \in Range(q) : (w \notin StopWords /\ Len(w) > 2) =>
           \E i \in 1..Len(chunk.text) : chunk.text[i] \in {w, w \o "s"}

\* C23 as stated: _calculate_keyword_score is 0.0 for a chunk with no text, lies in
\* [0, 1], its occurrence bonus lies in [0, 0.3], and it is 1.0 when all
\* significant question terms occur in the chunk text.
C23_KeywordScoreOneWhenAllTermsOccur ==
    pc = "keyword_return" =>
        /\ args.chunk.text \in {NoneText, << >>} => result.score = 0
        /\ 0 <= result.score /\ result.score <= 1000
        /\ 0 <= result.occurrence_bonus /\ result.occurrence_bonus <= 300
        /\ (args.chunk.text \notin {NoneText, << >>} /\ AllTermsOccur(args.chunk, args.question))
               => result.score = 1000

\* C23 amended: as above, the score being 1.0 when the question has at least one
\* significant term and all of them occur in the chunk text; with no significant
\* term the score is 0.0
C23_KeywordScoreOneWhenSomeAndAllTermsOccur ==
    pc = "keyword_return" =>
        /\ args.chunk.text \in {NoneText, << >>} => result.score = 0
        /\ 0 <= result.score /\ result.score <= 1000
        /\ 0 <= result.occurrence_bonus /\ result.occurrence_bonus <= 300
        /\ (args.chunk.text \notin {NoneText, << >>} /\ AllTermsOccur(args.chunk, args.question))
               => result.score =
                      IF \E w \in Range(args.question) : w \notin StopWords /\ Len(w) > 2
                      THEN 1000 ELSE 0

\* every significant term occurs, one of them repeatedly: the bonus is at its cap
\* and the score is 1.0
C23_Witness ==
    /\ pc = "keyword_return"
    /\ args.chunk = RepeatingChunk
    /\ args.question = <<"glucose", "glucose">>
    /\ result = [score |-> 1000, occurrence_bonus |-> 300]

\* C24: the related-document expansion contributes at most limit_per_document (5
\* in answer_question) chunks from any single document referenced by the keyword
\* hits, however the chunks are distributed over those documents; the expansion
\* passes each document id once.
C24_AtMostLimitFromEachDocument ==
    (pc = "fetch_return"
       /\ \A i, j \in 1..Len(args.document_ids) :
              args.document_ids[i] = args.document_ids[j] => i = j) =>
        \A d \in Range(args.document_ids) :
            Cardinality({i \in 1..Len(result) : result[i].document_id = d})
                <= args.limit_per_document

\* the place of an external call in the order of the request's steps
StepRank(op) ==
    CASE op = "embed" -> 1
      [] op = "search_similar" -> 2
      [] op = "search_keyword" -> 3
      [] op = "fetch_documents" -> 4
      [] op = "fetch_recent" -> 5
      [] op = "completion" -> 6
      [] op = "log" -> 7
      [] OTHER -> 0

\* C25: within one request the external calls are made in the order embedding,
\* vector search, (keyword search, document expansion)?, (recency fetch)?,
\* completion, log, each at most once and the embedding first; the expansion
\* only follows a keyword search; the completion is called only on the messages
\* assembled from the re-ranked retrieval result; the log write starts only after
\* the completion has produced the answer (the stream its last fragment).
C25_StepsInOrder ==
    /\ \A i, j \in 1..Len(calls) : i < j => StepRank(calls[i].op) < StepRank(calls[j].op)
    /\ \A i \in 1..Len(calls) : StepRank(calls[i].op) # 0
    /\ Len(calls) >= 1 => calls[1].op = "embed"
    /\ Len(calls) >= 2 => calls[2].op = "search_similar"
    /\ Called("fetch_documents") => Called("search_keyword")
    /\ Called("completion") =>
           /\ Called("search_similar")
           /\ messages = BuildMessages(EnhancedChatPrompt, FormatChunks(chunks), question, history)
           /\ chunks = FinalChunks(candidates, question, settings)
           /\ candidates # << >> =>
                  (candidates = retrieved \/ (retrieved = << >> /\ Called("fetch_recent")))
    /\ logAttempts > 0 =>
           /\ Called("completion")
           /\ pc \in {"done", "failed"}
           /\ mode = "blocking" => message = ContentOrEmpty(modelOut[1])
           /\ mode = "stream" =>
                  (full_response = Flatten(yielded) /\ full_response = ModelText(modelOut))

\* a streamed hybrid request ran through every step it can take together
C25_Witness ==
    /\ pc = "done"
    /\ mode = "stream"
    /\ [i \in 1..Len(calls) |-> calls[i].op]
         = <<"embed", "search_similar", "search_keyword", "fetch_documents", "completion",
             "log">>
    /\ yielded # << >>

\* C26: the keyword-search term is a deterministic function of the question text:
\* two runs on the same question issue the same keyword search, also when several
\* extracted keywords tie for the maximum length.
C26_SameQuestionSameKeywordSearch ==
    pc = "choice_return" => result.first = result.second

\* C27: hybrid augmentation only appends to the chunk list and the 2 x
\* retrieval_limit cap only cuts its tail: through the keyword search, the
\* expansion and the cap the chunks of the primary vector search stay the head of
\* the list in their order, and they are the head of the list handed to
\* re-ranking, ahead of every keyword and expansion chunk.
C27_VectorChunksStayAtHead ==
    /\ pc \in {"keyword", "expand", "rerank"} =>
           Take(chunks, Len(vector_chunks)) = vector_chunks
    /\ (pc \in {"keyword", "expand"} /\ keyword_chunks # << >>) =>
           \A i \in Len(vector_chunks) + 1..Len(chunks) :
               chunks[i].chunk_id \in ChunkIds(keyword_chunks)
    /\ (pc = "complete" \/ Called("completion")) =>
           /\ Len(candidates) >= Len(vector_chunks)
           /\ Take(candidates, Len(vector_chunks)) = vector_chunks
           /\ \A i \in Len(vector_chunks) + 1..Len(candidates) :
                  \/ candidates[i].chunk_id \in ChunkIds(keyword_chunks) \cup ChunkIds(related_chunks)
                  \/ vector_chunks = << >> /\ Called("fetch_recent")

\* the vector search found a chunk, the keyword search and the expansion added
\* others behind it, and the cap cut the list handed to re-ranking
C27_Witness ==
    /\ pc = "complete"
    /\ vector_chunks # << >>
    /\ Len(candidates) > Len(vector_chunks)
    /\ Len(merged) > Len(candidates)
    /\ related_chunks # << >>

\* the blocks of a text between the occurrences of a separator
BlocksOf(text, sep) ==
    LET seps == {i \in 1..Len(text) : text[i] = sep}
        Bound(k) == IF k = 0 THEN 0
                    ELSE IF k > Cardinality(seps) THEN Len(text) + 1
                    ELSE CHOOSE i \in seps : Cardinality({j \in seps : j < i}) = k - 1
    IN  [k \in 1..Cardinality(seps) + 1 |-> SubSeq(text, Bound(k - 1) + 1, Bound(k) - 1)]

\* C28: the chunks_extracted snapshot handed to the log write describes exactly the
\* chunks the prompt context of the same request was built from: one block per
\* chunk with non-blank text in the same order in both, each block naming the same
\* document and ending in the same text, and the log sentinel "No chunks
\* retrieved" if and only if the context is the no-context sentinel.
C28_LogSnapshotMatchesContext ==
    \A n \in 1..Len(logCalls) :
        LET snapshot == logCalls[n].chunks_extracted
            kept == NonBlankPositions(chunks)
            log_blocks == BlocksOf(snapshot, "\n----\n")
            context_blocks == BlocksOf(context, "\n\n")
            Nth(k) == CHOOSE i \in kept : Cardinality({j \in kept : j < i}) = k - 1
        IN  /\ snapshot = <<"No chunks retrieved">> <=> context = <<"No patient context available.">>
            /\ snapshot = <<"No chunks retrieved">> <=> kept = {}
            /\ kept # {} =>
                  /\ Len(log_blocks) = Cardinality(kept)
                  /\ Len(context_blocks) = Cardinality(kept)
                  /\ \A k \in 1..Cardinality(kept) :
                        LET text == chunks[Nth(k)].text
                            lb == log_blocks[k]
                            cb == context_blocks[k]
                        IN  /\ Len(lb) > Len(text) /\ Len(cb) > Len(text)
                            /\ SubSeq(lb, Len(lb) - Len(text) + 1, Len(lb)) = text
                            /\ SubSeq(cb, Len(cb) - Len(text) + 1, Len(cb)) = text
                            /\ lb[2] = cb[2]

\* a log write whose request used a blank-text chunk next to two chunks with text
C28_Witness ==
    /\ logCalls # << >>
    /\ \E i \in 1..Len(chunks) : chunks[i].text = <<" ">>
    /\ Cardinality(NonBlankPositions(chunks)) = 2
    /\ Len(BlocksOf(logCalls[1].chunks_extracted, "\n----\n")) = 2

\* C29: the response field of the log entry equals what the caller received: the
\* string answer_question returned, and for answer_question_stream the
\* concatenation, in order, of every fragment yielded to the caller; once the log
\* write has started no further fragment is yielded.
C29_LoggedResponseIsWhatCallerReceived ==
    /\ [](\A n \in 1..Len(logCalls) :
             /\ mode = "stream" => logCalls[n].response = Flatten(yielded)
             /\ (mode = "blocking" /\ pc = "done") => logCalls[n].response = returned)
    /\ [][logAttempts > 0 => yielded' = yielded]_vars

\* a streamed answer of two fragments ran to its end and was logged
C29_Witness ==
    /\ pc = "done"
    /\ mode = "stream"
    /\ Len(yielded) = 2
    /\ Len(logCalls) = 1
    /\ logCalls[1].response = yielded[1] \o yielded[2]

\* how many objects of a kind were created in the process
CountCreated(kind) == Cardinality({i \in 1..Len(created) : created[i].kind = kind})

\* C30: lazy application-state initialization runs at most once per process, also
\* when several first requests pass through ensure_initialized before it has
\* completed: the chunk repository, the log repository and the RagService are
\* created once, and once every request has gone on no pool exists that
\* _app_state does not hold.
C30_InitializedAtMostOnce ==
    /\ CountCreated("chunk_pool") <= 1
    /\ CountCreated("log_pool") <= 1
    /\ CountCreated("rag_service") <= 1
    /\ (\A r \in 1..Len(requests) : requests[r] \in {"waiting", "call_next"}) =>
           \A i \in 1..Len(created) :
               i \in {app_state.chunk_repo, app_state.log_repo, app_state.rag_service}
====
